---- MODULE Spec2Model ----
EXTENDS Integers, Sequences, FiniteSets, TLC

(***************************************************************************)
(* PromptConduit: hook events of three AI coding tools are detected,       *)
(* translated to one canonical event and handed to the API client; the     *)
(* installer writes the hook script into a tool's settings file.           *)
(*                                                                         *)
(* Python values.  A value is a set of at most one element: None is {} and *)
(* any other value is {v}, v tagged with its type:                         *)
(*   [str |-> "s"]    a string the code only passes on or looks up         *)
(*   [text |-> <<c>>] a string the code takes apart (paths, git output),   *)
(*                    the sequence of its characters                       *)
(*   [bool |-> b]  [num |-> n]  [list |-> <<values>>]                      *)
(*   [dict |-> d]     d a function from the keys to values                 *)
(*   [repr |-> v]     str(v), the rendering of a value                     *)
(* and an instance of a dataclass is the record of its fields.  JSON null  *)
(* is None, so `x is None` is x = None and dict.get is `get` below.        *)
(***************************************************************************)

VARIABLES
    \* ---- dispatch entry point (scripts/promptconduit_hook.py main) ----
    pc,          \* position of main(), or of the harness of the other specifications
    stdin,       \* what standard input holds
    environ,     \* os.environ as far as the program reads it
    native_event,\* the value json.load returned
    config,      \* get_config()
    tool,        \* detect_tool(native_event)
    adapter,     \* get_adapter(tool, debug)
    event,       \* adapter.translate_event(native_event)
    stdout,      \* the responses written so far
    exit_code,   \* what main() returned
    child,       \* the forked child of send_event_async
    sends,       \* the delivery attempts made, by process
    \* ---- translation harness ----
    detected,    \* what the call detect_tool(native_event) did
    translated,  \* what translate_event of each adapter did on native_event
    wire,        \* CanonicalEvent.to_dict of each translated event
    parsed,      \* CanonicalEvent.from_dict of each wire dict
    \* ---- context extractor ----
    git,         \* the run of extract_git_context: directory, probes run, result
    \* ---- a process translating one event after another ----
    calls,       \* the translate_event calls made, the clock and the identifiers drawn
    \* ---- command-line installer (cli/main.py) ----
    cli          \* the settings file of one tool and the commands run on it

vars == <<pc, stdin, environ, native_event, config, tool, adapter, event,
          stdout, exit_code, child, sends, detected, translated, wire, parsed, git,
          calls, cli>>

\* ------------------------------------------------------------------------
\* Python values
\* ------------------------------------------------------------------------

None == {}

Some(v) == {v}

The(o) == CHOOSE v \in o : TRUE

\* dict.get(k): the value under k, None when the key is absent
get(d, k) == IF k \in DOMAIN d THEN d[k] ELSE None

\* dict.get(k, default)
getd(d, k, default) == IF k \in DOMAIN d THEN d[k] ELSE default

Str(s) == {[str |-> s]}

Text(t) == {[text |-> t]}

Bool(b) == {[bool |-> b]}

Num(n) == {[num |-> n]}

List(l) == {[list |-> l]}

Dict(d) == {[dict |-> d]}

\* isinstance(x, dict), isinstance(x, str)
IsDict(o) == o # None /\ "dict" \in DOMAIN The(o)

IsStr(o) == o # None /\ ("str" \in DOMAIN The(o) \/ "text" \in DOMAIN The(o))

\* bool(x): None, "", 0, False, [] and {} are false, everything else is true
Truthy(o) ==
    /\ o # None
    /\ LET v == The(o)
       IN  CASE "str" \in DOMAIN v -> v.str # ""
             [] "text" \in DOMAIN v -> v.text # <<>>
             [] "bool" \in DOMAIN v -> v.bool
             [] "num" \in DOMAIN v -> v.num # 0
             [] "list" \in DOMAIN v -> v.list # <<>>
             [] "dict" \in DOMAIN v -> DOMAIN v.dict # {}
             [] OTHER -> TRUE

\* a or b
Or(a, b) == IF Truthy(a) THEN a ELSE b

\* the record `base` with the fields of `upd` replacing its own
Override(base, upd) == [k \in DOMAIN base |-> IF k \in DOMAIN upd THEN upd[k] ELSE base[k]]

\* the dict holding the keys `required` and every other field of rec that is not None
OmitNone(rec, required) ==
    [k \in {f \in DOMAIN rec : f \in required \/ rec[f] # None} |-> rec[k]]

\* ------------------------------------------------------------------------
\* schema/events.py, schema/context.py
\* ------------------------------------------------------------------------

EventTypeValues ==
    {"prompt_submit", "tool_pre", "tool_post", "session_start", "session_end",
     "agent_thought", "agent_response", "file_read", "file_edit", "file_create",
     "shell_pre", "shell_post"}

ToolValues ==
    {"claude-code", "cursor", "gemini-cli", "codex", "windsurf", "copilot",
     "aider", "continue", "other"}

\* a member of the enumeration EventType, of the enumeration Tool
EventType(v) == [enum |-> "EventType", value |-> v]

Tool(v) == [enum |-> "Tool", value |-> v]

GitContextFields ==
    {"commit_hash", "commit_message", "commit_author", "commit_timestamp", "branch",
     "is_detached_head", "is_dirty", "staged_count", "unstaged_count",
     "untracked_count", "ahead_count", "behind_count", "upstream_branch", "remote_url"}

\* GitContext(): every field None
GitContext == [f \in GitContextFields |-> None]

GitContext_to_dict(g) == OmitNone(g, {})

WorkspaceContextFields == {"repo_name", "repo_path", "working_directory", "files_referenced"}

WorkspaceContext(repo_name, repo_path, working_directory, files_referenced) ==
    [repo_name |-> repo_name, repo_path |-> repo_path,
     working_directory |-> working_directory, files_referenced |-> files_referenced]

WorkspaceContext_to_dict(w) == OmitNone(w, {})

PromptPayloadFields == {"prompt", "response_summary", "attachments"}

PromptPayload(prompt, response_summary, attachments) ==
    [prompt |-> prompt, response_summary |-> response_summary, attachments |-> attachments]

PromptPayload_to_dict(p) == OmitNone(p, {"prompt"})

ToolPayloadFields ==
    {"tool_name", "tool_use_id", "input", "output", "success", "duration_ms", "error_message"}

\* ToolPayload(tool_name=...) with the keyword arguments given in kw, the others None
ToolPayload(kw) == [f \in ToolPayloadFields |-> get(kw, f)]

ToolPayload_to_dict(t) == OmitNone(t, {"tool_name"})

SessionPayloadFields == {"source", "reason"}

SessionPayload(source, reason) == [source |-> source, reason |-> reason]

SessionPayload_to_dict(s) == OmitNone(s, {})

CanonicalEventFields ==
    {"tool", "event_type", "event_id", "timestamp", "adapter_version", "session_id",
     "workspace", "git", "prompt", "tool_event", "session", "raw_event_type", "raw_event"}

\* self.workspace.to_dict() and the like, under `if self.x is not None`
Nested(o, to_dict(_)) == IF o = None THEN None ELSE Dict(to_dict(The(o)))

CanonicalEvent_to_dict(e) ==
    OmitNone(
        [tool |-> Str(e.tool.value),
         event_type |-> Str(e.event_type.value),
         event_id |-> e.event_id,
         timestamp |-> e.timestamp,
         adapter_version |-> e.adapter_version,
         session_id |-> e.session_id,
         workspace |-> Nested(e.workspace, WorkspaceContext_to_dict),
         git |-> Nested(e.git, GitContext_to_dict),
         prompt |-> Nested(e.prompt, PromptPayload_to_dict),
         tool_event |-> Nested(e.tool_event, ToolPayload_to_dict),
         session |-> Nested(e.session, SessionPayload_to_dict),
         raw_event_type |-> e.raw_event_type,
         raw_event |-> e.raw_event],
        {"tool", "event_type", "event_id", "timestamp", "adapter_version"})

\* Cls(**data[key]) under `if key in data and data[key]`
Rebuild(data, key, fields) ==
    IF key \in DOMAIN data /\ Truthy(data[key])
    THEN Some([f \in fields |-> get(The(data[key]).dict, f)])
    ELSE None

CanonicalEvent_from_dict(data) ==
    [tool |-> Tool(The(data["tool"]).str),
     event_type |-> EventType(The(data["event_type"]).str),
     event_id |-> data["event_id"],
     timestamp |-> data["timestamp"],
     adapter_version |-> data["adapter_version"],
     session_id |-> get(data, "session_id"),
     workspace |-> Rebuild(data, "workspace", WorkspaceContextFields),
     git |-> Rebuild(data, "git", GitContextFields),
     prompt |-> Rebuild(data, "prompt", PromptPayloadFields),
     tool_event |-> Rebuild(data, "tool_event", ToolPayloadFields),
     session |-> Rebuild(data, "session", SessionPayloadFields),
     raw_event_type |-> get(data, "raw_event_type"),
     raw_event |-> get(data, "raw_event")]

\* ------------------------------------------------------------------------
\* text of a subprocess: str.strip, str.split, int
\* ------------------------------------------------------------------------

Whitespace == {" ", "\n", "\t"}

RECURSIVE lstrip(_)
lstrip(s) == IF s # <<>> /\ Head(s) \in Whitespace THEN lstrip(Tail(s)) ELSE s

RECURSIVE rstrip(_)
rstrip(s) ==
    IF s # <<>> /\ s[Len(s)] \in Whitespace THEN rstrip(SubSeq(s, 1, Len(s) - 1)) ELSE s

\* str.strip()
strip(s) == rstrip(lstrip(s))

\* str.split(sep): the pieces between the separators, empty pieces kept
RECURSIVE split(_, _)
split(s, sep) ==
    IF \E i \in 1..Len(s) : s[i] = sep
    THEN LET i == CHOOSE j \in 1..Len(s) : s[j] = sep /\ \A k \in 1..(j - 1) : s[k] # sep
         IN  <<SubSeq(s, 1, i - 1)>> \o split(SubSeq(s, i + 1, Len(s)), sep)
    ELSE <<s>>

\* the first word of a text that starts with no whitespace
RECURSIVE word(_)
word(s) == IF s = <<>> \/ Head(s) \in Whitespace THEN <<>> ELSE <<Head(s)>> \o word(Tail(s))

\* str.split(): the words between runs of whitespace
RECURSIVE split_words(_)
split_words(s) ==
    LET t == lstrip(s)
    IN  IF t = <<>> THEN <<>>
        ELSE <<word(t)>> \o split_words(SubSeq(t, Len(word(t)) + 1, Len(t)))

Digits == {"0", "1", "2", "3", "4", "5", "6", "7", "8", "9"}

DigitValue(c) ==
    CASE c = "0" -> 0 [] c = "1" -> 1 [] c = "2" -> 2 [] c = "3" -> 3 [] c = "4" -> 4
      [] c = "5" -> 5 [] c = "6" -> 6 [] c = "7" -> 7 [] c = "8" -> 8 [] c = "9" -> 9

RECURSIVE digits_value(_)
digits_value(s) ==
    IF s = <<>> THEN 0
    ELSE digits_value(SubSeq(s, 1, Len(s) - 1)) * 10 + DigitValue(s[Len(s)])

\* whether int(s) returns (decimal digits after an optional sign) instead of raising ValueError
int_parses(s) ==
    LET d == IF s # <<>> /\ Head(s) \in {"+", "-"} THEN Tail(s) ELSE s
    IN  d # <<>> /\ \A i \in 1..Len(d) : d[i] \in Digits

\* int(s)
int(s) ==
    IF Head(s) = "-" THEN 0 - digits_value(Tail(s))
    ELSE IF Head(s) = "+" THEN digits_value(Tail(s))
    ELSE digits_value(s)

\* ------------------------------------------------------------------------
\* adapters/base.py: extract_git_context
\* ------------------------------------------------------------------------

\* the git queries of extract_git_context, in the order it runs them
Probes == <<"toplevel", "hash", "message", "author", "branch", "status", "remote", "tracking">>

\* subprocess.run returned: exit code and standard output
Exit(rc, out) == [kind |-> "exit", rc |-> rc, stdout |-> out]

\* subprocess.run raised: TimeoutExpired, FileNotFoundError (no git binary), OSError
Raised(exc) == [kind |-> "raise", exc |-> exc]

ProbeExceptions == {"TimeoutExpired", "FileNotFoundError", "OSError"}

\* the state of one call: `result` is the GitContext being filled, `run` the probes
\* run so far with what each did, `value` what the call returned once `returned`
git_call(working_dir) ==
    [working_dir |-> working_dir, result |-> GitContext, run |-> <<>>,
     returned |-> ~Truthy(working_dir), value |-> None]

git_return(st, probe, outcome, value) ==
    [st EXCEPT !.run = Append(st.run, [probe |-> probe, outcome |-> outcome]),
               !.returned = TRUE, !.value = value]

git_continue(st, probe, outcome, fields) ==
    [st EXCEPT !.run = Append(st.run, [probe |-> probe, outcome |-> outcome]),
               !.result = Override(st.result, fields)]

\* the lines of `git status --porcelain` as the code splits them
status_lines(out) == IF strip(out) # <<>> THEN split(strip(out), "\n") ELSE <<>>

staged_lines(lines) ==
    {i \in 1..Len(lines) : Len(lines[i]) >= 2 /\ lines[i][1] # "?" /\ lines[i][1] # " "}

unstaged_lines(lines) ==
    {i \in 1..Len(lines) : Len(lines[i]) >= 2 /\ lines[i][2] \notin {" ", "?"}}

untracked_lines(lines) ==
    {i \in 1..Len(lines) : Len(lines[i]) >= 2 /\ lines[i][1] = "?"}

\* the fields of GitContext a successful probe assigns
probe_fields(probe, out) ==
    CASE probe = "toplevel" -> <<>>
      [] probe = "hash" -> [commit_hash |-> Text(strip(out))]
      [] probe = "message" -> [commit_message |-> Text(strip(out))]
      [] probe = "author" -> [commit_author |-> Text(strip(out))]
      [] probe = "branch" ->
            [branch |-> IF strip(out) # <<>> THEN Text(strip(out)) ELSE None,
             is_detached_head |-> Bool(strip(out) = <<>>)]
      [] probe = "status" ->
            [is_dirty |-> Bool(Len(status_lines(out)) > 0),
             staged_count |-> Num(Cardinality(staged_lines(status_lines(out)))),
             unstaged_count |-> Num(Cardinality(unstaged_lines(status_lines(out)))),
             untracked_count |-> Num(Cardinality(untracked_lines(status_lines(out))))]
      [] probe = "remote" -> [remote_url |-> Text(strip(out))]
      [] probe = "tracking" ->
            IF Len(split_words(strip(out))) = 2
            THEN [behind_count |-> Num(int(split_words(strip(out))[1])),
                  ahead_count |-> Num(int(split_words(strip(out))[2]))]
            ELSE <<>>

\* int() of the ahead/behind output raises ValueError
tracking_raises(out) ==
    /\ Len(split_words(strip(out))) = 2
    /\ \E i \in 1..2 : ~int_parses(split_words(strip(out))[i])

\* probe_step without `if repo_result.returncode != 0: return None`
probe_step_unchecked_toplevel(st, probe, outcome) ==
    IF outcome.kind = "raise"
    THEN git_return(st, probe, outcome, None)
    ELSE IF outcome.rc # 0
    THEN IF probe = "tracking" THEN git_return(st, probe, outcome, Some(st.result))
         ELSE git_continue(st, probe, outcome, <<>>)
    ELSE IF probe = "tracking"
    THEN IF tracking_raises(outcome.stdout)
         THEN git_return(st, probe, outcome, None)
         ELSE git_return(st, probe, outcome,
                         Some(Override(st.result, probe_fields(probe, outcome.stdout))))
    ELSE git_continue(st, probe, outcome, probe_fields(probe, outcome.stdout))

\* one subprocess.run of extract_git_context and the statements up to the next one
probe_step(st, probe, outcome) ==
    IF outcome.kind = "raise"
    THEN git_return(st, probe, outcome, None)
    ELSE IF outcome.rc # 0
    THEN IF probe = "toplevel" THEN git_return(st, probe, outcome, None)
         ELSE IF probe = "tracking" THEN git_return(st, probe, outcome, Some(st.result))
         ELSE git_continue(st, probe, outcome, <<>>)
    ELSE IF probe = "tracking"
    THEN IF tracking_raises(outcome.stdout)
         THEN git_return(st, probe, outcome, None)
         ELSE git_return(st, probe, outcome,
                         Some(Override(st.result, probe_fields(probe, outcome.stdout))))
    ELSE git_continue(st, probe, outcome, probe_fields(probe, outcome.stdout))

\* the probe a call that has not returned runs next
next_probe(st) == Probes[Len(st.run) + 1]

RECURSIVE run_probes(_, _)
run_probes(st, env) ==
    IF st.returned THEN st
    ELSE run_probes(probe_step(st, next_probe(st), env[next_probe(st)]), env)

\* extract_git_context(working_dir) where env gives what each subprocess does
extract_git_context(working_dir, env) == run_probes(git_call(working_dir), env).value

\* ------------------------------------------------------------------------
\* adapters/base.py: _extract_workspace, create_base_event
\* ------------------------------------------------------------------------

\* what a call did: it returned a value, or it raised
Return(v) == [value |-> v]

Raise(exc) == [raise |-> exc]

IsRaise(r) == "raise" \in DOMAIN r

\* the pieces of a path that are not empty
RECURSIVE path_parts(_)
path_parts(pieces) ==
    IF pieces = <<>> THEN <<>>
    ELSE IF Head(pieces) = <<>> THEN path_parts(Tail(pieces))
    ELSE <<Head(pieces)>> \o path_parts(Tail(pieces))

\* Path(p).name: the last component of the path, "" when it has none
path_name(p) ==
    LET parts == path_parts(split(p, "/"))
    IN  IF parts = <<>> THEN <<>> ELSE parts[Len(parts)]

\* _extract_workspace(native_event); ws_probe is what its `git rev-parse
\* --show-toplevel` does when the code comes to run it
_extract_workspace(native, ws_probe) ==
    LET context == getd(native, "context", Dict(<<>>))
    IN  IF ~IsDict(context) THEN Raise("AttributeError")
        ELSE
        LET c == The(context).dict
            cwd == Or(get(native, "cwd"), get(c, "workingDirectory"))
            repo_name == get(c, "repoName")
            repo_path == get(c, "repoPath")
            found == ws_probe.kind = "exit" /\ ws_probe.rc = 0
            top == IF found THEN strip(ws_probe.stdout) ELSE <<>>
        IN  IF ~Truthy(cwd) /\ ~Truthy(context) THEN Return(None)
            ELSE IF ~Truthy(repo_name) /\ Truthy(repo_path)
            THEN Return(Some(WorkspaceContext(
                     Text(path_name(The(repo_path).text)), repo_path, cwd,
                     get(c, "filesReferenced"))))
            ELSE IF ~Truthy(repo_name) /\ Truthy(cwd) /\ found
            THEN Return(Some(WorkspaceContext(
                     Text(path_name(top)), Text(top), cwd, get(c, "filesReferenced"))))
            ELSE Return(Some(WorkspaceContext(
                     repo_name, repo_path, cwd, get(c, "filesReferenced"))))

\* promptconduit.version.__version__
version == "__version__"

\* the Tool each adapter class stamps on its events
TOOL(cls) ==
    CASE cls = "ClaudeCodeAdapter" -> Tool("claude-code")
      [] cls = "CursorAdapter" -> Tool("cursor")
      [] cls = "GeminiAdapter" -> Tool("gemini-cli")

\* an adapter instance: BaseAdapter.__init__
Adapter(cls, include_raw_event) ==
    [cls |-> cls, include_raw_event |-> include_raw_event, adapter_version |-> version]

\* the working directory create_base_event hands to extract_git_context
base_working_dir(native) ==
    Or(get(native, "cwd"), get(native, "workingDirectory"))

\* create_base_event; env gives the identifier generator, the clock and what the
\* subprocesses do
create_base_event(self, event_type, native, native_event_name, env) ==
    LET workspace == _extract_workspace(native, env.ws_probe)
    IN  IF IsRaise(workspace) THEN workspace
        ELSE Return(
            [tool |-> TOOL(self.cls),
             event_type |-> event_type,
             event_id |-> {[uuid |-> env.uuid]},
             timestamp |-> {[isoformat |-> env.now]},
             adapter_version |-> Str(self.adapter_version),
             session_id |-> get(native, "session_id"),
             workspace |-> workspace.value,
             git |-> extract_git_context(base_working_dir(native), env.git),
             prompt |-> None,
             tool_event |-> None,
             session |-> None,
             raw_event_type |-> native_event_name,
             raw_event |-> IF self.include_raw_event THEN Dict(native) ELSE None])

\* ------------------------------------------------------------------------
\* adapters/claude_code.py, adapters/cursor.py, adapters/gemini.py
\* ------------------------------------------------------------------------

ClaudeCodeAdapter_EVENT_MAPPING ==
    [UserPromptSubmit |-> "prompt_submit",
     PreToolUse |-> "tool_pre",
     PostToolUse |-> "tool_post",
     SessionStart |-> "session_start",
     SessionEnd |-> "session_end",
     Stop |-> "agent_response",
     SubagentStop |-> "agent_response",
     PermissionRequest |-> "tool_pre",
     Notification |-> "agent_thought"]

CursorAdapter_EVENT_MAPPING ==
    [beforeSubmitPrompt |-> "prompt_submit",
     beforeShellExecution |-> "shell_pre",
     afterShellExecution |-> "shell_post",
     beforeMCPExecution |-> "tool_pre",
     afterMCPExecution |-> "tool_post",
     beforeReadFile |-> "file_read",
     afterFileEdit |-> "file_edit",
     afterAgentResponse |-> "agent_response",
     afterAgentThought |-> "agent_thought",
     stop |-> "session_end",
     beforeTabFileRead |-> "file_read",
     afterTabFileEdit |-> "file_edit"]

GeminiAdapter_EVENT_MAPPING ==
    [SessionStart |-> "session_start",
     SessionEnd |-> "session_end",
     BeforeAgent |-> "prompt_submit",
     AfterAgent |-> "agent_response",
     BeforeModel |-> "agent_thought",
     AfterModel |-> "agent_thought",
     BeforeTool |-> "tool_pre",
     AfterTool |-> "tool_post",
     BeforeToolSelection |-> "tool_pre",
     PreCompress |-> "agent_thought",
     Notification |-> "agent_thought"]

EVENT_MAPPING(cls) ==
    CASE cls = "ClaudeCodeAdapter" -> ClaudeCodeAdapter_EVENT_MAPPING
      [] cls = "CursorAdapter" -> CursorAdapter_EVENT_MAPPING
      [] cls = "GeminiAdapter" -> GeminiAdapter_EVENT_MAPPING

TOOL_NAME_MAPPING ==
    [read_file |-> "Read",
     write_file |-> "Write",
     replace |-> "Edit",
     read_many_files |-> "Read",
     list_directory |-> "Glob",
     glob |-> "Glob",
     search_file_content |-> "Grep",
     run_shell_command |-> "Bash",
     google_web_search |-> "WebSearch",
     web_fetch |-> "WebFetch",
     write_todos |-> "TodoWrite",
     save_memory |-> "Memory",
     delegate_to_agent |-> "Task"]

\* a list or a dict cannot be looked up in a dict: TypeError (unhashable)
Unhashable(o) == o # None /\ ("list" \in DOMAIN The(o) \/ "dict" \in DOMAIN The(o))

\* table.get(key, default) for a table keyed by strings
lookup(table, key, default) ==
    IF key # None /\ "str" \in DOMAIN The(key) /\ The(key).str \in DOMAIN table
    THEN Str(table[The(key).str])
    ELSE default

\* BaseAdapter.get_event_type: EVENT_MAPPING.get(native_event_name)
get_event_type(self, native_event_name) ==
    LET found == lookup(EVENT_MAPPING(self.cls), native_event_name, None)
    IN  IF found = None THEN None ELSE Some(EventType(The(found).str))

\* the event name each adapter's translate_event reads
read_event_name(self, native) ==
    IF self.cls = "ClaudeCodeAdapter"
    THEN Or(get(native, "type"), getd(native, "hook_event_name", Str("")))
    ELSE getd(native, "hook_event_name", Str(""))

\* str(x)
Repr(o) == {[repr |-> o]}

\* --- Claude Code ---

ClaudeCodeAdapter_translate_prompt(native) ==
    PromptPayload(getd(native, "prompt", Str("")), get(native, "responseSummary"), None)

\* _translate_tool that looks at the error field only, not at is_error
ClaudeCodeAdapter_translate_tool_error_only(native, event_type) ==
    LET tool_response == getd(native, "tool_response", Dict(<<>>))
        is_post == event_type = EventType("tool_post")
        has_error == get(The(tool_response).dict, "error")
        failed == is_post /\ IsDict(tool_response) /\ Truthy(has_error)
    IN  ToolPayload(
            [tool_name |-> getd(native, "tool_name", Str("unknown")),
             tool_use_id |-> get(native, "tool_use_id"),
             input |-> get(native, "tool_input"),
             output |-> IF is_post THEN tool_response ELSE None,
             success |-> IF is_post THEN Bool(~failed) ELSE None,
             error_message |->
                 IF failed
                 THEN Or(Or(get(The(tool_response).dict, "error"),
                            get(The(tool_response).dict, "message")),
                         Repr(tool_response))
                 ELSE None])

ClaudeCodeAdapter_translate_tool(native, event_type) ==
    LET tool_response == getd(native, "tool_response", Dict(<<>>))
        is_post == event_type = EventType("tool_post")
        has_error == Or(get(The(tool_response).dict, "error"),
                        get(The(tool_response).dict, "is_error"))
        failed == is_post /\ IsDict(tool_response) /\ Truthy(has_error)
    IN  ToolPayload(
            [tool_name |-> getd(native, "tool_name", Str("unknown")),
             tool_use_id |-> get(native, "tool_use_id"),
             input |-> get(native, "tool_input"),
             output |-> IF is_post THEN tool_response ELSE None,
             success |-> IF is_post THEN Bool(~failed) ELSE None,
             error_message |->
                 IF failed
                 THEN Or(Or(get(The(tool_response).dict, "error"),
                            get(The(tool_response).dict, "message")),
                         Repr(tool_response))
                 ELSE None])

ClaudeCodeAdapter_translate_session(native, event_type) ==
    SessionPayload(
        IF event_type = EventType("session_start") THEN get(native, "source") ELSE None,
        IF event_type = EventType("session_end") THEN get(native, "reason") ELSE None)

\* the payload branch of ClaudeCodeAdapter.translate_event
ClaudeCodeAdapter_payload(base, native) ==
    IF base.event_type = EventType("prompt_submit")
    THEN [base EXCEPT !.prompt = Some(ClaudeCodeAdapter_translate_prompt(native))]
    ELSE IF base.event_type \in {EventType("tool_pre"), EventType("tool_post")}
    THEN [base EXCEPT !.tool_event =
              Some(ClaudeCodeAdapter_translate_tool(native, base.event_type))]
    ELSE IF base.event_type \in {EventType("session_start"), EventType("session_end")}
    THEN [base EXCEPT !.session =
              Some(ClaudeCodeAdapter_translate_session(native, base.event_type))]
    ELSE base

ClaudeCodeAdapter_translate_event(self, native, env) ==
    LET name == read_event_name(self, native)
        event_type == get_event_type(self, name)
        base == create_base_event(self, The(event_type), native, name, env)
    IN  IF Unhashable(name) THEN Raise("TypeError")
        ELSE IF event_type = None THEN Return(None)
        ELSE IF IsRaise(base) THEN base
        ELSE Return(Some(ClaudeCodeAdapter_payload(base.value, native)))

\* --- Cursor ---

\* iterating the attachments raises TypeError: a true value that is no list, str or dict
attachments_raise(raw) ==
    Truthy(raw) /\ ("num" \in DOMAIN The(raw) \/ "bool" \in DOMAIN The(raw))

\* the {type, path} entry kept for one attachment
attachment_entry(a) == Dict([type |-> get(The(a).dict, "type"), path |-> get(The(a).dict, "path")])

RECURSIVE attachment_entries(_)
attachment_entries(l) ==
    IF l = <<>> THEN <<>>
    ELSE IF IsDict(Head(l)) THEN <<attachment_entry(Head(l))>> \o attachment_entries(Tail(l))
    ELSE attachment_entries(Tail(l))

CursorAdapter_translate_prompt(native) ==
    LET raw_attachments == getd(native, "attachments", List(<<>>))
        attachments ==
            IF Truthy(raw_attachments) /\ "list" \in DOMAIN The(raw_attachments)
            THEN attachment_entries(The(raw_attachments).list)
            ELSE <<>>
    IN  PromptPayload(getd(native, "prompt", Str("")), None,
                      IF attachments # <<>> THEN List(attachments) ELSE None)

\* _translate_shell inferring success from the output as the other adapters do
CursorAdapter_translate_shell_inferring(native, event_type) ==
    LET is_post == event_type = EventType("shell_post")
        output == get(native, "output")
        failed == /\ is_post /\ IsDict(output)
                  /\ Truthy(Or(get(The(output).dict, "error"),
                               get(The(output).dict, "is_error")))
    IN  ToolPayload(
            [tool_name |-> Str("shell"),
             input |-> Dict([command |-> get(native, "command"), cwd |-> get(native, "cwd")]),
             output |-> IF is_post THEN Dict([stdout |-> get(native, "output")]) ELSE None,
             success |-> IF is_post THEN Bool(~failed) ELSE None,
             duration_ms |-> get(native, "duration")])

CursorAdapter_translate_shell(native, event_type) ==
    LET is_post == event_type = EventType("shell_post")
    IN  ToolPayload(
            [tool_name |-> Str("shell"),
             input |-> Dict([command |-> get(native, "command"), cwd |-> get(native, "cwd")]),
             output |-> IF is_post THEN Dict([stdout |-> get(native, "output")]) ELSE None,
             success |-> IF is_post THEN Bool(TRUE) ELSE None,
             duration_ms |-> get(native, "duration")])

CursorAdapter_translate_mcp(native, event_type) ==
    LET is_post == event_type = EventType("tool_post")
    IN  ToolPayload(
            [tool_name |-> getd(native, "tool_name", Str("mcp")),
             input |-> get(native, "params"),
             output |-> IF is_post THEN get(native, "result") ELSE None,
             success |-> IF is_post THEN Bool(TRUE) ELSE None,
             duration_ms |-> get(native, "duration")])

CursorAdapter_translate_file_op(native, event_type) ==
    LET is_edit == event_type = EventType("file_edit")
    IN  ToolPayload(
            [tool_name |-> IF is_edit THEN Str("file_edit") ELSE Str("file_read"),
             input |->
                 IF is_edit THEN Dict([file_path |-> get(native, "file_path")])
                 ELSE Dict([file_path |-> get(native, "file_path"),
                            contents |-> get(native, "contents")]),
             output |->
                 IF is_edit THEN Dict([edits |-> getd(native, "edits", List(<<>>))])
                 ELSE None])

\* workspace_roots[0] raises: a true value that is neither a list nor a str
roots_raise(roots) ==
    Truthy(roots) /\ "list" \notin DOMAIN The(roots) /\ "text" \notin DOMAIN The(roots)

\* workspace_roots[0]
first_root(roots) ==
    IF "list" \in DOMAIN The(roots) THEN The(roots).list[1] ELSE Text(<<The(roots).text[1]>>)

\* the session id and the workspace roots of CursorAdapter.translate_event
CursorAdapter_session_and_roots(base, native) ==
    LET workspace_roots == getd(native, "workspace_roots", List(<<>>))
        with_session ==
            [base EXCEPT !.session_id =
                Or(get(native, "conversation_id"), get(native, "generation_id"))]
    IN  IF Truthy(workspace_roots) /\ base.workspace # None
        THEN [with_session EXCEPT !.workspace = Some(
                 [The(base.workspace) EXCEPT
                     !.repo_path = first_root(workspace_roots),
                     !.working_directory =
                         IF ~Truthy(The(base.workspace).working_directory)
                         THEN first_root(workspace_roots)
                         ELSE The(base.workspace).working_directory])]
        ELSE with_session

\* the payload branch of CursorAdapter.translate_event
CursorAdapter_payload(base, native) ==
    IF base.event_type = EventType("prompt_submit")
    THEN [base EXCEPT !.prompt = Some(CursorAdapter_translate_prompt(native))]
    ELSE IF base.event_type \in {EventType("shell_pre"), EventType("shell_post")}
    THEN [base EXCEPT !.tool_event =
              Some(CursorAdapter_translate_shell(native, base.event_type))]
    ELSE IF base.event_type \in {EventType("tool_pre"), EventType("tool_post")}
    THEN [base EXCEPT !.tool_event =
              Some(CursorAdapter_translate_mcp(native, base.event_type))]
    ELSE IF base.event_type \in {EventType("file_read"), EventType("file_edit")}
    THEN [base EXCEPT !.tool_event =
              Some(CursorAdapter_translate_file_op(native, base.event_type))]
    ELSE base

CursorAdapter_translate_event(self, native, env) ==
    LET name == read_event_name(self, native)
        event_type == get_event_type(self, name)
        base == create_base_event(self, The(event_type), native, name, env)
    IN  IF Unhashable(name) THEN Raise("TypeError")
        ELSE IF event_type = None THEN Return(None)
        ELSE IF IsRaise(base) THEN base
        ELSE IF base.value.workspace # None
                /\ roots_raise(getd(native, "workspace_roots", List(<<>>)))
        THEN Raise("TypeError")
        ELSE IF base.value.event_type = EventType("prompt_submit")
                /\ attachments_raise(getd(native, "attachments", List(<<>>)))
        THEN Raise("TypeError")
        ELSE Return(Some(CursorAdapter_payload(
                 CursorAdapter_session_and_roots(base.value, native), native)))

\* --- Gemini CLI ---

GeminiAdapter_translate_prompt(native) ==
    PromptPayload(
        Or(Or(Or(get(native, "prompt"), get(native, "user_message")),
              get(native, "message")), Str("")),
        get(native, "response_summary"),
        None)

\* _translate_tool passing the Gemini tool name on as it is
GeminiAdapter_translate_tool_verbatim_name(native, event_type) ==
    LET gemini_tool_name == getd(native, "tool_name", Str("unknown"))
        is_post == event_type = EventType("tool_post")
        tool_output == Or(get(native, "tool_output"), get(native, "output"))
        has_error == Or(get(The(tool_output).dict, "error"),
                        get(The(tool_output).dict, "is_error"))
        failed == is_post /\ IsDict(tool_output) /\ Truthy(has_error)
    IN  ToolPayload(
            [tool_name |-> gemini_tool_name,
             tool_use_id |-> get(native, "tool_use_id"),
             input |-> Or(get(native, "tool_input"), get(native, "input")),
             output |-> IF is_post THEN tool_output ELSE None,
             success |-> IF is_post THEN Bool(~failed) ELSE None,
             error_message |->
                 IF failed
                 THEN Or(Or(get(The(tool_output).dict, "error"),
                            get(The(tool_output).dict, "message")),
                         Repr(tool_output))
                 ELSE None,
             duration_ms |-> get(native, "duration_ms")])

\* _translate_tool that looks at the error field only, not at is_error
GeminiAdapter_translate_tool_error_only(native, event_type) ==
    LET gemini_tool_name == getd(native, "tool_name", Str("unknown"))
        is_post == event_type = EventType("tool_post")
        tool_output == Or(get(native, "tool_output"), get(native, "output"))
        has_error == get(The(tool_output).dict, "error")
        failed == is_post /\ IsDict(tool_output) /\ Truthy(has_error)
    IN  ToolPayload(
            [tool_name |-> lookup(TOOL_NAME_MAPPING, gemini_tool_name, gemini_tool_name),
             tool_use_id |-> get(native, "tool_use_id"),
             input |-> Or(get(native, "tool_input"), get(native, "input")),
             output |-> IF is_post THEN tool_output ELSE None,
             success |-> IF is_post THEN Bool(~failed) ELSE None,
             error_message |->
                 IF failed
                 THEN Or(Or(get(The(tool_output).dict, "error"),
                            get(The(tool_output).dict, "message")),
                         Repr(tool_output))
                 ELSE None,
             duration_ms |-> get(native, "duration_ms")])

GeminiAdapter_translate_tool(native, event_type) ==
    LET gemini_tool_name == getd(native, "tool_name", Str("unknown"))
        is_post == event_type = EventType("tool_post")
        tool_output == Or(get(native, "tool_output"), get(native, "output"))
        has_error == Or(get(The(tool_output).dict, "error"),
                        get(The(tool_output).dict, "is_error"))
        failed == is_post /\ IsDict(tool_output) /\ Truthy(has_error)
    IN  ToolPayload(
            [tool_name |-> lookup(TOOL_NAME_MAPPING, gemini_tool_name, gemini_tool_name),
             tool_use_id |-> get(native, "tool_use_id"),
             input |-> Or(get(native, "tool_input"), get(native, "input")),
             output |-> IF is_post THEN tool_output ELSE None,
             success |-> IF is_post THEN Bool(~failed) ELSE None,
             error_message |->
                 IF failed
                 THEN Or(Or(get(The(tool_output).dict, "error"),
                            get(The(tool_output).dict, "message")),
                         Repr(tool_output))
                 ELSE None,
             duration_ms |-> get(native, "duration_ms")])

GeminiAdapter_translate_session(native, event_type) ==
    SessionPayload(
        IF event_type = EventType("session_start") THEN get(native, "source") ELSE None,
        IF event_type = EventType("session_end") THEN get(native, "reason") ELSE None)

\* the payload branch of GeminiAdapter.translate_event
GeminiAdapter_payload(base, native) ==
    IF base.event_type = EventType("prompt_submit")
    THEN [base EXCEPT !.prompt = Some(GeminiAdapter_translate_prompt(native))]
    ELSE IF base.event_type \in {EventType("tool_pre"), EventType("tool_post")}
    THEN [base EXCEPT !.tool_event =
              Some(GeminiAdapter_translate_tool(native, base.event_type))]
    ELSE IF base.event_type \in {EventType("session_start"), EventType("session_end")}
    THEN [base EXCEPT !.session =
              Some(GeminiAdapter_translate_session(native, base.event_type))]
    ELSE base

GeminiAdapter_translate_event(self, native, env) ==
    LET name == read_event_name(self, native)
        event_type == get_event_type(self, name)
        base == create_base_event(self, The(event_type), native, name, env)
    IN  IF Unhashable(name) THEN Raise("TypeError")
        ELSE IF event_type = None THEN Return(None)
        ELSE IF IsRaise(base) THEN base
        ELSE IF base.value.event_type \in {EventType("tool_pre"), EventType("tool_post")}
                /\ Unhashable(getd(native, "tool_name", Str("unknown")))
        THEN Raise("TypeError")
        ELSE Return(Some(GeminiAdapter_payload(base.value, native)))

\* adapter.translate_event(native_event): native_event.get raises AttributeError
\* on a JSON value that is no dict
translate_event(self, native_json, env) ==
    IF ~IsDict(native_json) THEN Raise("AttributeError")
    ELSE CASE self.cls = "ClaudeCodeAdapter" ->
                ClaudeCodeAdapter_translate_event(self, The(native_json).dict, env)
           [] self.cls = "CursorAdapter" ->
                CursorAdapter_translate_event(self, The(native_json).dict, env)
           [] self.cls = "GeminiAdapter" ->
                GeminiAdapter_translate_event(self, The(native_json).dict, env)

\* ------------------------------------------------------------------------
\* scripts/promptconduit_hook.py: detect_tool, get_adapter
\* ------------------------------------------------------------------------

\* the tool identifiers, as text: detect_tool lower-cases the override
CLAUDE_CODE_ID == <<"c", "l", "a", "u", "d", "e", "-", "c", "o", "d", "e">>

CURSOR_ID == <<"c", "u", "r", "s", "o", "r">>

GEMINI_ID == <<"g", "e", "m", "i", "n", "i">>

GEMINI_CLI_ID == <<"g", "e", "m", "i", "n", "i", "-", "c", "l", "i">>

\* the adapter registry: tool identifier -> adapter class
ADAPTERS ==
    (CLAUDE_CODE_ID :> "ClaudeCodeAdapter") @@ (CURSOR_ID :> "CursorAdapter")
        @@ (GEMINI_ID :> "GeminiAdapter") @@ (GEMINI_CLI_ID :> "GeminiAdapter")

CLAUDE_CODE_EVENTS ==
    {"UserPromptSubmit", "PreToolUse", "PostToolUse", "SessionStart", "SessionEnd",
     "Stop", "SubagentStop", "PermissionRequest", "Notification", "PreCompact"}

CURSOR_EVENTS ==
    {"beforeSubmitPrompt", "beforeShellExecution", "afterShellExecution",
     "beforeMCPExecution", "afterMCPExecution", "beforeReadFile", "afterFileEdit",
     "afterAgentResponse", "afterAgentThought", "stop", "beforeTabFileRead",
     "afterTabFileEdit"}

GEMINI_EVENTS ==
    {"BeforeAgent", "AfterAgent", "BeforeModel", "AfterModel", "BeforeTool",
     "AfterTool", "BeforeToolSelection", "PreCompress"}

\* str.lower() on one character
lower_char(c) ==
    CASE c = "A" -> "a" [] c = "B" -> "b" [] c = "C" -> "c" [] c = "D" -> "d"
      [] c = "E" -> "e" [] c = "F" -> "f" [] c = "G" -> "g" [] c = "H" -> "h"
      [] c = "I" -> "i" [] c = "J" -> "j" [] c = "K" -> "k" [] c = "L" -> "l"
      [] c = "M" -> "m" [] c = "N" -> "n" [] c = "O" -> "o" [] c = "P" -> "p"
      [] c = "Q" -> "q" [] c = "R" -> "r" [] c = "S" -> "s" [] c = "T" -> "t"
      [] c = "U" -> "u" [] c = "V" -> "v" [] c = "W" -> "w" [] c = "X" -> "x"
      [] c = "Y" -> "y" [] c = "Z" -> "z" [] OTHER -> c

\* str.lower()
lower(t) == [i \in 1..Len(t) |-> lower_char(t[i])]

\* event_name in EVENTS, for a name that can be hashed
name_in(event_name, events) ==
    event_name # None /\ "str" \in DOMAIN The(event_name) /\ The(event_name).str \in events

\* detect_tool returning the override as it was typed, not lower-cased
detect_tool_verbatim(native_json, env_tool) ==
    LET native == The(native_json).dict
        event_name == Or(get(native, "hook_event_name"), getd(native, "type", Str("")))
    IN  IF Truthy(env_tool) THEN Return(env_tool)
        ELSE IF ~IsDict(native_json) THEN Raise("AttributeError")
        ELSE IF Truthy(get(native, "cursor_version")) THEN Return(Text(CURSOR_ID))
        ELSE IF Unhashable(event_name) THEN Raise("TypeError")
        ELSE IF name_in(event_name, CURSOR_EVENTS) THEN Return(Text(CURSOR_ID))
        ELSE IF name_in(event_name, GEMINI_EVENTS) THEN Return(Text(GEMINI_ID))
        ELSE IF name_in(event_name, CLAUDE_CODE_EVENTS) THEN Return(Text(CLAUDE_CODE_ID))
        ELSE Return(None)

\* detect_tool falling back to Claude Code when no event-name set holds the name
detect_tool_default_claude(native_json, env_tool) ==
    LET native == The(native_json).dict
        event_name == Or(get(native, "hook_event_name"), getd(native, "type", Str("")))
    IN  IF Truthy(env_tool) THEN Return(Text(lower(The(env_tool).text)))
        ELSE IF ~IsDict(native_json) THEN Raise("AttributeError")
        ELSE IF Truthy(get(native, "cursor_version")) THEN Return(Text(CURSOR_ID))
        ELSE IF Unhashable(event_name) THEN Raise("TypeError")
        ELSE IF name_in(event_name, CURSOR_EVENTS) THEN Return(Text(CURSOR_ID))
        ELSE IF name_in(event_name, GEMINI_EVENTS) THEN Return(Text(GEMINI_ID))
        ELSE Return(Text(CLAUDE_CODE_ID))

\* detect_tool(native_event); env_tool is os.environ.get("PROMPTCONDUIT_TOOL").
\* native_event.get raises AttributeError on a JSON value that is no dict
detect_tool(native_json, env_tool) ==
    LET native == The(native_json).dict
        event_name == Or(get(native, "hook_event_name"), getd(native, "type", Str("")))
    IN  IF Truthy(env_tool) THEN Return(Text(lower(The(env_tool).text)))
        ELSE IF ~IsDict(native_json) THEN Raise("AttributeError")
        ELSE IF Truthy(get(native, "cursor_version")) THEN Return(Text(CURSOR_ID))
        ELSE IF Unhashable(event_name) THEN Raise("TypeError")
        ELSE IF name_in(event_name, CURSOR_EVENTS) THEN Return(Text(CURSOR_ID))
        ELSE IF name_in(event_name, GEMINI_EVENTS) THEN Return(Text(GEMINI_ID))
        ELSE IF name_in(event_name, CLAUDE_CODE_EVENTS) THEN Return(Text(CLAUDE_CODE_ID))
        ELSE Return(None)

\* get_adapter that builds the adapter with the default include_raw_event
get_adapter_without_debug(tool_id, debug) ==
    IF The(tool_id).text \in DOMAIN ADAPTERS
    THEN Some(Adapter(ADAPTERS[The(tool_id).text], FALSE))
    ELSE None

\* get_adapter(tool, debug): an instance of the registered class, or None
get_adapter(tool_id, debug) ==
    IF The(tool_id).text \in DOMAIN ADAPTERS
    THEN Some(Adapter(ADAPTERS[The(tool_id).text], debug))
    ELSE None

\* ------------------------------------------------------------------------
\* client/config.py: get_config
\* ------------------------------------------------------------------------

\* get_config(): the key and the debug flag, read from the environment
get_config(env) ==
    [api_key |-> getd(env, "PROMPTCONDUIT_API_KEY", Str("")),
     debug |-> getd(env, "PROMPTCONDUIT_DEBUG", Str("")) = Str("1")]

\* Config.is_configured
is_configured(cfg) == Truthy(cfg.api_key)

\* ------------------------------------------------------------------------
\* client/api.py: send_event, _send_json
\* ------------------------------------------------------------------------

ApiResponse(success, status_code, error) ==
    [success |-> success, status_code |-> status_code, error |-> error]

\* _send_json; http is what urlopen does: it returns a response with a 2xx status,
\* raises HTTPError for any other status, URLError when the remote cannot be
\* reached, or another exception
_send_json(http) ==
    CASE http.kind = "response" ->
            ApiResponse(http.status \in {200, 201}, http.status, None)
      [] http.kind = "HTTPError" -> ApiResponse(FALSE, http.status, Str("HTTPError"))
      [] http.kind = "URLError" -> ApiResponse(FALSE, 0, Str("Connection error"))
      [] http.kind = "Exception" -> ApiResponse(FALSE, 0, Str("Exception"))

\* send_event(event)
send_event(cfg, http) ==
    IF ~is_configured(cfg) THEN ApiResponse(FALSE, 0, Str("API key not configured"))
    ELSE _send_json(http)

\* ------------------------------------------------------------------------
\* the inputs the model draws from
\* ------------------------------------------------------------------------

\* the longest attachments list of a native event
MaxAttachments == 2

\* the most lines `git status --porcelain` prints
MaxStatusLines == 2

\* the most translate_event calls one process makes
MaxCalls == 3

\* the sequences over S of length at most n
RECURSIVE SeqsUpTo(_, _)
SeqsUpTo(S, n) ==
    IF n = 0 THEN {<<>>}
    ELSE SeqsUpTo(S, n - 1) \cup {Append(q, x) : q \in SeqsUpTo(S, n - 1), x \in S}

\* the texts of a sequence, one after the other
RECURSIVE Concat(_)
Concat(texts) == IF texts = <<>> THEN <<>> ELSE Head(texts) \o Concat(Tail(texts))

\* "/r", "/r/s", "/w", "/f"
RepoDir == <<"/", "r">>

SubDir == <<"/", "r", "/", "s">>

RootDir == <<"/", "w">>

FilePath == <<"/", "f">>

\* the two-character codes of `git status --porcelain`: index, then work tree
StatusCodes ==
    {<<"M", " ">>, <<" ", "M">>, <<"?", "?">>, <<"M", "M">>, <<"A", " ">>, <<" ", "D">>}

\* one line of the status output: the code, a blank, the path
StatusLine(code) == code \o <<" ", "f", "\n">>

StatusOutputs ==
    {Concat(ls) : ls \in SeqsUpTo({StatusLine(c) : c \in StatusCodes}, MaxStatusLines)}

\* what each git query can print when it exits 0
ProbeTexts(probe) ==
    CASE probe = "toplevel" -> {RepoDir \o <<"\n">>}
      [] probe = "hash" -> {<<"a", "b", "\n">>}
      [] probe = "message" -> {<<"m", "\n">>}
      [] probe = "author" -> {<<"a", "\n">>}
      [] probe = "branch" -> {<<"b", "\n">>, <<>>}
      [] probe = "status" -> StatusOutputs
      [] probe = "remote" -> {<<"u", "\n">>}
      [] probe = "tracking" ->
            {<<"1", "\t", "2", "\n">>, <<"x", "\t", "y", "\n">>, <<"3", "\n">>, <<>>}

\* what one subprocess.run can do
ProbeOutcomes(probe) ==
    {Raised(e) : e \in ProbeExceptions} \cup {Exit(128, <<>>)}
        \cup {Exit(0, t) : t \in ProbeTexts(probe)}

ProbeNames == {Probes[i] : i \in 1..Len(Probes)}

\* every git query succeeds, one file is modified in the work tree
AllOk ==
    [p \in ProbeNames |->
        IF p = "status" THEN Exit(0, StatusLine(<<" ", "M">>))
        ELSE IF p = "tracking" THEN Exit(0, <<"1", "\t", "2", "\n">>)
        ELSE Exit(0, CHOOSE t \in ProbeTexts(p) : t # <<>>)]

\* the repositories a translation runs in: a healthy one, no repository, one where
\* every query after the first fails, one where the second query times out
GitEnvs ==
    {AllOk,
     [AllOk EXCEPT !["toplevel"] = Exit(128, <<>>)],
     [p \in ProbeNames |-> IF p = "toplevel" THEN AllOk[p] ELSE Exit(1, <<>>)],
     [AllOk EXCEPT !["hash"] = Raised("TimeoutExpired")]}

WsProbes == {Exit(0, RepoDir \o <<"\n">>), Exit(128, <<>>), Raised("TimeoutExpired")}

TranslateEnvs ==
    {[ws_probe |-> w, git |-> g, uuid |-> 1, now |-> 1] : w \in WsProbes, g \in GitEnvs}

\* every event name of a mapping table or of a detector set, one unknown name, ""
EventNames ==
    DOMAIN ClaudeCodeAdapter_EVENT_MAPPING \cup DOMAIN CursorAdapter_EVENT_MAPPING
        \cup DOMAIN GeminiAdapter_EVENT_MAPPING
        \cup CLAUDE_CODE_EVENTS \cup CURSOR_EVENTS \cup GEMINI_EVENTS
        \cup {"SomeUnknownEvent", ""}

\* the names tried in the `type` field and in both fields at once
MixedNames == {"PreToolUse", "PostToolUse", "beforeSubmitPrompt", "AfterTool", "SomeUnknownEvent"}

\* the fields of a native event that name it
NameParts ==
    {[hook_event_name |-> Str(n)] : n \in EventNames}
        \cup {[type |-> Str(n)] : n \in MixedNames}
        \cup {[hook_event_name |-> Str(h), type |-> Str(t)] : h \in MixedNames, t \in MixedNames}
        \cup {[hook_event_name |-> Str(n), cursor_version |-> Str("0.42.0")] : n \in MixedNames}
        \cup {<<>>, [hook_event_name |-> None], [hook_event_name |-> List(<<Str("x")>>)],
              [cursor_version |-> Str("0.42.0")],
              [hook_event_name |-> Str(""), type |-> Str("")]}

\* the fields the workspace and the working directory are read from
WorkspaceParts ==
    {<<>>,
     [cwd |-> Text(RepoDir)],
     [cwd |-> Text(<<>>)],
     [workingDirectory |-> Text(RepoDir)],
     [context |-> Dict(<<>>)],
     [context |-> Dict([workingDirectory |-> Text(SubDir)])],
     [context |-> Dict([repoName |-> Text(<<"n">>)])],
     [context |-> Dict([repoPath |-> Text(RepoDir)])],
     [context |-> Dict([filesReferenced |-> List(<<Text(FilePath)>>)])],
     [context |-> Dict([other |-> Str("x")])],
     [context |-> None],
     [context |-> Str("x")],
     [workspace_roots |-> List(<<Text(RootDir)>>)],
     [workspace_roots |-> List(<<>>)],
     [workspace_roots |-> Num(1), cwd |-> Text(RepoDir)],
     [cwd |-> Text(RepoDir), workspace_roots |-> List(<<Text(RootDir)>>)],
     [context |-> Dict([other |-> Str("x")]), workspace_roots |-> List(<<Text(RootDir)>>)]}

AttachmentEntries ==
    {Dict([type |-> Str("file"), path |-> Text(FilePath)]),
     Dict([type |-> Str("rule")]),
     Str("note")}

\* the values a tool response, tool output or result takes
ToolResponses ==
    {None, Str("done"), Dict(<<>>), Dict([stdout |-> Str("ok")]),
     Dict([error |-> Str("failed")]),
     Dict([is_error |-> Bool(TRUE), message |-> Str("boom")]),
     Dict([is_error |-> Bool(TRUE)]),
     Dict([is_error |-> Bool(FALSE), error |-> Str("")]),
     Dict([error |-> Str("failed"), message |-> Str("boom")])}

\* the fields the payloads and the session id are read from
PayloadParts ==
    {[prompt |-> Str("hello")],
     [prompt |-> None],
     [prompt |-> Str(""), message |-> Str("m")],
     [user_message |-> Str("u"), response_summary |-> Str("r")],
     [prompt |-> Str("hello"), responseSummary |-> Str("r")],
     [attachments |-> None],
     [attachments |-> Num(1)],
     [session_id |-> Str("s1"), cwd |-> Text(RepoDir), prompt |-> Str("hello")],
     [conversation_id |-> Str("c1"), generation_id |-> Str("g1")],
     [generation_id |-> Str("g1")],
     [source |-> Str("startup")],
     [reason |-> Str("exit")],
     [source |-> Str("startup"), reason |-> Str("exit")],
     [tool_name |-> Str("read_file"), tool_use_id |-> Str("t1"),
      tool_input |-> Dict([file_path |-> Text(FilePath)])],
     [tool_name |-> Str("Custom"), input |-> Dict(<<>>), duration_ms |-> Num(5)],
     [tool_name |-> List(<<Str("x")>>)],
     [command |-> Str("ls"), output |-> Str("out"), duration |-> Num(5)],
     [file_path |-> Text(FilePath), contents |-> Str("c")],
     [file_path |-> Text(FilePath), edits |-> List(<<Dict(<<>>)>>)]}
        \cup {[attachments |-> List(l)] : l \in SeqsUpTo(AttachmentEntries, MaxAttachments)}
        \cup {[tool_response |-> r] : r \in ToolResponses}
        \cup {[tool_output |-> r] : r \in ToolResponses}
        \cup {[tool_name |-> Str(n)] : n \in DOMAIN TOOL_NAME_MAPPING \cup {"Read"}}
        \cup {[tool_name |-> None], [tool_name |-> Num(5)]}
        \cup {[tool_response |-> r, tool_output |-> r] : r \in ToolResponses}
        \cup {[tool_response |-> r, tool_output |-> r,
               output |-> Dict([error |-> Str("failed")])] : r \in ToolResponses}
        \cup {[output |-> r, result |-> r] : r \in ToolResponses}

\* the native events the adapters are tried on
NativeEvents ==
    {n @@ w : n \in NameParts, w \in WorkspaceParts}
        \cup {n @@ q : n \in NameParts, q \in PayloadParts}

\* the native events the dispatch entry point is run on
MainEvents ==
    {n @@ q : n \in NameParts,
              q \in {<<>>,
                     [session_id |-> Str("s1"), cwd |-> Text(RepoDir), prompt |-> Str("hello")],
                     [context |-> None]}}

\* what standard input holds: no JSON, bytes that are no text, or a JSON value
Stdins ==
    {[kind |-> "JSONDecodeError"], [kind |-> "UnicodeDecodeError"]}
        \cup {[kind |-> "json", value |-> v] :
                 v \in {None, List(<<>>), Str("text"), Num(1)} \cup {Dict(d) : d \in MainEvents}}

\* the values of PROMPTCONDUIT_TOOL
Overrides ==
    {Text(<<>>), Text(<<"C", "u", "r", "s", "o", "r">>), Text(CURSOR_ID),
     Text(<<"C", "L", "A", "U", "D", "E", "-", "C", "O", "D", "E">>),
     Text(<<"G", "e", "m", "i", "n", "i", "-", "C", "L", "I">>), Text(GEMINI_ID),
     Text(<<"C", "o", "d", "e", "x">>)}

\* os.environ as far as the program reads it
Environs ==
    {k @@ d @@ t :
        k \in {<<>>, [PROMPTCONDUIT_API_KEY |-> Str("")], [PROMPTCONDUIT_API_KEY |-> Str("key")]},
        d \in {<<>>, [PROMPTCONDUIT_DEBUG |-> Str("1")], [PROMPTCONDUIT_DEBUG |-> Str("true")]},
        t \in {<<>>} \cup {[PROMPTCONDUIT_TOOL |-> o] : o \in Overrides}}

\* what urlopen does
HttpOutcomes ==
    {[kind |-> "response", status |-> 200], [kind |-> "response", status |-> 201],
     [kind |-> "response", status |-> 204], [kind |-> "HTTPError", status |-> 500],
     [kind |-> "URLError"], [kind |-> "Exception"]}

\* ------------------------------------------------------------------------
\* the context extractor, one subprocess at a time
\* ------------------------------------------------------------------------

\* the values of the variables a specification does not use
NotStarted == [kind |-> "not started"]

MainIdle ==
    /\ stdin = NotStarted /\ environ = <<>> /\ native_event = None /\ config = NotStarted
    /\ tool = None /\ adapter = None /\ event = None /\ stdout = <<>> /\ exit_code = None
    /\ child = "none" /\ sends = <<>>

HarnessIdle ==
    /\ detected = NotStarted /\ translated = NotStarted /\ wire = NotStarted
    /\ parsed = NotStarted

GitIdle == git = NotStarted

CallsIdle == calls = NotStarted

CliIdle == cli = NotStarted

main_vars ==
    <<stdin, environ, native_event, config, tool, adapter, event, stdout, exit_code,
      child, sends>>

harness_vars == <<detected, translated, wire, parsed>>

\* the working directories extract_git_context is called with
WorkingDirs == {None, Text(<<>>), Text(RepoDir)}

GitInit ==
    /\ pc = "git"
    /\ git \in {git_call(wd) : wd \in WorkingDirs}
    /\ MainIdle /\ HarnessIdle /\ CallsIdle /\ CliIdle

\* the next subprocess.run of extract_git_context and the statements after it
GitProbe ==
    /\ pc = "git"
    /\ ~git.returned
    /\ \E outcome \in ProbeOutcomes(next_probe(git)) :
           git' = probe_step(git, next_probe(git), outcome)
    /\ UNCHANGED <<pc, main_vars, harness_vars, calls, cli>>

GitNext == GitProbe

SpecGit == GitInit /\ [][GitNext]_vars

\* a subprocess that raised or exited non-zero
ProbeFailed(outcome) == outcome.kind = "raise" \/ outcome.rc # 0

\* the i-th probe of the run failed: as above, or its output could not be parsed
RunFailed(i) ==
    \/ ProbeFailed(git.run[i].outcome)
    \/ git.run[i].probe = "tracking" /\ tracking_raises(git.run[i].outcome.stdout)

\* C7: once the top-level check has succeeded, the failure of a single later probe
\* (non-zero exit, timeout, missing binary, unparsable output) leaves only that
\* probe's fields unset: the call still runs every probe, it returns a GitContext,
\* and every field whose own probe succeeded holds what that probe printed.
C7_LaterProbeFailureIsIsolated ==
    (/\ pc = "git" /\ git.returned /\ git.run # <<>>
     /\ ~ProbeFailed(git.run[1].outcome)
     /\ Cardinality({i \in 2..Len(git.run) : RunFailed(i)}) = 1)
    => /\ Len(git.run) = Len(Probes)
       /\ git.value # None
       /\ \A i \in 2..Len(git.run) :
              ~RunFailed(i) =>
                  LET fields == probe_fields(git.run[i].probe, git.run[i].outcome.stdout)
                  IN  \A f \in DOMAIN fields : The(git.value)[f] = fields[f]

\* C8: with no working directory, an empty one, or a failed top-level probe the call
\* returns None and no later probe is run.
C8_AbsentWithoutRepository ==
    pc = "git" =>
        /\ ~Truthy(git.working_dir) =>
               git.returned /\ git.value = None /\ git.run = <<>>
        /\ (git.run # <<>> /\ ProbeFailed(git.run[1].outcome)) =>
               git.returned /\ git.value = None /\ Len(git.run) = 1

\* C8's case: `git rev-parse --show-toplevel` exited non-zero and the call returned
C8_TopLevelFailed ==
    /\ pc = "git" /\ git.returned /\ git.value = None
    /\ Len(git.run) = 1 /\ git.run[1].outcome = Exit(128, <<>>)

\* the lines git printed: the text before each newline
PorcelainLines(out) ==
    LET pieces == split(out, "\n") IN SubSeq(pieces, 1, Len(pieces) - 1)

\* C9: after a successful status probe the three counts are the numbers of printed
\* lines whose index character is neither blank nor '?', whose worktree character
\* is neither blank nor '?', and whose index character is '?', whatever the
\* position of the line, and is_dirty tells whether a line was printed.
C9_StatusCountsPerLine ==
    (/\ pc = "git" /\ Len(git.run) >= 6
     /\ ~ProbeFailed(git.run[6].outcome))
    => LET lines == PorcelainLines(git.run[6].outcome.stdout)
           n == 1..Len(lines)
       IN  /\ git.result.staged_count = Num(Cardinality({i \in n : lines[i][1] \notin {" ", "?"}}))
           /\ git.result.unstaged_count = Num(Cardinality({i \in n : lines[i][2] \notin {" ", "?"}}))
           /\ git.result.untracked_count = Num(Cardinality({i \in n : lines[i][1] = "?"}))
           /\ git.result.is_dirty = Bool(Len(lines) > 0)

\* ------------------------------------------------------------------------
\* detection, translation, serialization and parsing of one native event
\* ------------------------------------------------------------------------

AdapterClasses == {"ClaudeCodeAdapter", "CursorAdapter", "GeminiAdapter"}

\* the call returned a CanonicalEvent
IsEvent(r) == ~IsRaise(r) /\ r.value # None

TranslateInit ==
    /\ pc = "detect_tool"
    /\ native_event \in {Dict(d) : d \in NativeEvents}
    /\ stdin = NotStarted /\ environ = <<>> /\ config = NotStarted
    /\ tool = None /\ adapter = None /\ event = None /\ stdout = <<>> /\ exit_code = None
    /\ child = "none" /\ sends = <<>>
    /\ HarnessIdle /\ GitIdle /\ CallsIdle /\ CliIdle

\* detect_tool(native_event) with PROMPTCONDUIT_TOOL unset
HDetect ==
    /\ pc = "detect_tool"
    /\ detected' = detect_tool(native_event, get(environ, "PROMPTCONDUIT_TOOL"))
    /\ pc' = "translate_event"
    /\ UNCHANGED <<main_vars, translated, wire, parsed, git, calls, cli>>

\* translate_event(native_event) of an instance of each adapter class
HTranslate ==
    /\ pc = "translate_event"
    /\ \E env \in TranslateEnvs, include_raw_event \in BOOLEAN :
           translated' =
               [cls \in AdapterClasses |->
                   translate_event(Adapter(cls, include_raw_event), native_event, env)]
    /\ pc' = "to_dict"
    /\ UNCHANGED <<main_vars, detected, wire, parsed, git, calls, cli>>

\* event.to_dict() of every event translated
HToDict ==
    /\ pc = "to_dict"
    /\ wire' =
           [cls \in {c \in AdapterClasses : IsEvent(translated[c])} |->
               CanonicalEvent_to_dict(The(translated[cls].value))]
    /\ pc' = "from_dict"
    /\ UNCHANGED <<main_vars, detected, translated, parsed, git, calls, cli>>

\* CanonicalEvent.from_dict(data) of every dict produced
HFromDict ==
    /\ pc = "from_dict"
    /\ parsed' = [cls \in DOMAIN wire |-> CanonicalEvent_from_dict(wire[cls])]
    /\ pc' = "translated"
    /\ UNCHANGED <<main_vars, detected, translated, wire, git, calls, cli>>

TranslateNext == HDetect \/ HTranslate \/ HToDict \/ HFromDict

SpecTranslate == TranslateInit /\ [][TranslateNext]_vars

\* the event name as the detector reads it: hook_event_name, else type
DetectorName(native) == Or(get(native, "hook_event_name"), getd(native, "type", Str("")))

\* the adapter classes whose EVENT_MAPPING holds the name
TablesNaming(name) == {cls \in AdapterClasses : name \in DOMAIN EVENT_MAPPING(cls)}

\* the names a native event carries in its two name fields
NamesCarried(native) ==
    {get(native, k) : k \in {"hook_event_name", "type"} \cap DOMAIN native}

\* C2: with no override and no cursor_version marker, when the name the detector
\* reads is in exactly one adapter's EVENT_MAPPING, detect_tool returns an identifier
\* registered for that adapter, and that adapter's translate_event (when it returns
\* at all) returns an event whose event_type is the one the table maps the name to.
C2_UniqueNameSelectsAndTranslates ==
    (pc = "translated" /\ IsDict(native_event)) =>
        LET native == The(native_event).dict
            name == DetectorName(native)
        IN  (/\ ~Truthy(get(native, "cursor_version"))
             /\ name # None /\ "str" \in DOMAIN The(name)
             /\ Cardinality(TablesNaming(The(name).str)) = 1)
            => LET cls == CHOOSE c \in TablesNaming(The(name).str) : TRUE
               IN  /\ ~IsRaise(detected) /\ detected.value # None
                   /\ The(detected.value).text \in DOMAIN ADAPTERS
                   /\ ADAPTERS[The(detected.value).text] = cls
                   /\ ~IsRaise(translated[cls]) =>
                          /\ translated[cls].value # None
                          /\ The(translated[cls].value).event_type =
                                 EventType(EVENT_MAPPING(cls)[The(name).str])

\* the payload slot of each category of event type
PayloadSlot(event_type) ==
    CASE event_type = "prompt_submit" -> {"prompt"}
      [] event_type \in {"tool_pre", "tool_post", "shell_pre", "shell_post",
                         "file_read", "file_edit"} -> {"tool_event"}
      [] event_type \in {"session_start", "session_end"} -> {"session"}
      [] OTHER -> {}

\* C3: in every event an adapter returns, the payload slot of the category of its
\* event_type is populated and the other two are empty.
C3_ExactlyTheMatchingSlot ==
    pc = "translated" =>
        \A cls \in AdapterClasses :
            IsEvent(translated[cls]) =>
                LET e == The(translated[cls].value)
                    slot == PayloadSlot(e.event_type.value)
                IN  slot # {} =>
                        \A k \in {"prompt", "tool_event", "session"} :
                            (e[k] # None) <=> (k \in slot)

\* C4: with no override (and no cursor_version marker), when every name the event
\* carries is a string absent from all three EVENT_MAPPING tables, detect_tool
\* returns None and translate_event of every adapter returns None.
C4_UnknownNameIsUnknownEverywhere ==
    (pc = "translated" /\ IsDict(native_event)) =>
        LET native == The(native_event).dict
        IN  (/\ ~Truthy(get(native, "cursor_version"))
             /\ \A n \in NamesCarried(native) :
                    n # None /\ "str" \in DOMAIN The(n) /\ TablesNaming(The(n).str) = {})
            => /\ detected = Return(None)
               /\ \A cls \in AdapterClasses : translated[cls] = Return(None)

\* C5: from_dict(to_dict(e)) equals e, field for field, for every event e an
\* adapter returns.
C5_RoundTrip ==
    pc = "translated" =>
        \A cls \in DOMAIN parsed : parsed[cls] = The(translated[cls].value)

\* no field of the dict is null
NoNullFields(d) == \A k \in DOMAIN d : d[k] # None

\* C6: to_dict() of an adapter-produced event holds no null: not in the envelope,
\* not in workspace, git, prompt, tool_event or session, not in a {type, path}
\* entry of the attachments.  Stated for the native events that hold no null
\* themselves, so that a null found is one the code made.
C6_NoNullSerialized ==
    (pc \in {"from_dict", "translated"} /\ NoNullFields(The(native_event).dict)) =>
        \A cls \in DOMAIN wire :
            LET d == wire[cls]
            IN  /\ NoNullFields(d)
                /\ \A k \in {"workspace", "git", "prompt", "tool_event", "session"} \cap DOMAIN d :
                       NoNullFields(The(d[k]).dict)
                /\ ("prompt" \in DOMAIN d /\ "attachments" \in DOMAIN The(d["prompt"]).dict) =>
                       LET entries == The(The(d["prompt"]).dict["attachments"]).list
                       IN  \A i \in 1..Len(entries) : NoNullFields(The(entries[i]).dict)

\* ------------------------------------------------------------------------
\* scripts/promptconduit_hook.py: main
\* ------------------------------------------------------------------------

\* {"continue": True}
Response == [continue |-> TRUE]

\* output_response(data): one line on standard output
output_response(data) == stdout' = Append(stdout, data)

\* `return 0`: main() is over
return(code) == exit_code' = Num(code) /\ pc' = "done"

\* what os.fork() does in send_event_async: it returns in the parent (and in a
\* child), raises OSError when the system call fails, or is no attribute of os
ForkOutcomes == {"forked", "AttributeError", "OSError"}

Init ==
    /\ pc = "main"
    /\ stdin \in Stdins
    /\ environ \in Environs
    /\ native_event = None /\ config = NotStarted
    /\ tool = None /\ adapter = None /\ event = None /\ stdout = <<>> /\ exit_code = None
    /\ child = "none" /\ sends = <<>>
    /\ HarnessIdle /\ GitIdle /\ CallsIdle /\ CliIdle

\* native_event = json.load(sys.stdin)
ReadStdin ==
    /\ pc = "main"
    /\ CASE stdin.kind = "json" ->
                native_event' = stdin.value /\ pc' = "get_config"
                    /\ UNCHANGED <<stdout, exit_code>>
         [] stdin.kind = "JSONDecodeError" ->
                output_response(Response) /\ return(0) /\ UNCHANGED native_event
         [] stdin.kind = "UnicodeDecodeError" ->
                pc' = "except" /\ UNCHANGED <<native_event, stdout, exit_code>>
    /\ UNCHANGED <<stdin, environ, config, tool, adapter, event, child, sends,
                   harness_vars, git, calls, cli>>

\* main() that goes on to detection without looking at config.is_configured
LoadConfig_unchecked ==
    /\ pc = "get_config"
    /\ config' = get_config(environ)
    /\ pc' = "detect_tool"
    /\ UNCHANGED <<stdin, environ, native_event, tool, adapter, event, stdout, exit_code,
                   child, sends, harness_vars, git, calls, cli>>

\* config = get_config(); if not config.is_configured: respond and return
LoadConfig ==
    /\ pc = "get_config"
    /\ config' = get_config(environ)
    /\ IF is_configured(config')
       THEN pc' = "detect_tool" /\ UNCHANGED <<stdout, exit_code>>
       ELSE output_response(Response) /\ return(0)
    /\ UNCHANGED <<stdin, environ, native_event, tool, adapter, event, child, sends,
                   harness_vars, git, calls, cli>>

\* tool = detect_tool(native_event); if not tool: respond and return
DetectTool ==
    /\ pc = "detect_tool"
    /\ LET r == detect_tool(native_event, get(environ, "PROMPTCONDUIT_TOOL"))
       IN  IF IsRaise(r)
           THEN pc' = "except" /\ UNCHANGED <<tool, stdout, exit_code>>
           ELSE /\ tool' = r.value
                /\ IF Truthy(r.value)
                   THEN pc' = "get_adapter" /\ UNCHANGED <<stdout, exit_code>>
                   ELSE output_response(Response) /\ return(0)
    /\ UNCHANGED <<stdin, environ, native_event, config, adapter, event, child, sends,
                   harness_vars, git, calls, cli>>

\* adapter = get_adapter(tool, debug=config.debug); if not adapter: respond and return
GetAdapter ==
    /\ pc = "get_adapter"
    /\ adapter' = get_adapter(tool, config.debug)
    /\ IF adapter' # None
       THEN pc' = "translate_event" /\ UNCHANGED <<stdout, exit_code>>
       ELSE output_response(Response) /\ return(0)
    /\ UNCHANGED <<stdin, environ, native_event, config, tool, event, child, sends,
                   harness_vars, git, calls, cli>>

\* canonical_event = adapter.translate_event(native_event); if not canonical_event:
\* respond and return
Translate ==
    /\ pc = "translate_event"
    /\ \E env \in TranslateEnvs :
           LET r == translate_event(The(adapter), native_event, env)
           IN  IF IsRaise(r)
               THEN pc' = "except" /\ UNCHANGED <<event, stdout, exit_code>>
               ELSE /\ event' = r.value
                    /\ IF r.value # None
                       THEN pc' = "send_event_async" /\ UNCHANGED <<stdout, exit_code>>
                       ELSE output_response(Response) /\ return(0)
    /\ UNCHANGED <<stdin, environ, native_event, config, tool, adapter, child, sends,
                   harness_vars, git, calls, cli>>

\* send_event_async whose blocking send raises what went wrong
SendEventAsync_raising ==
    /\ pc = "send_event_async"
    /\ \E fork \in ForkOutcomes :
           CASE fork = "forked" ->
                    child' = "forked" /\ pc' = "output_response" /\ UNCHANGED sends
             [] fork \in {"AttributeError", "OSError"} ->
                    /\ \E http \in HttpOutcomes :
                           LET response == send_event(config, http)
                           IN  /\ sends' = Append(sends, [process |-> "parent",
                                                          response |-> response])
                               /\ pc' = IF response.success THEN "output_response"
                                        ELSE "except"
                    /\ UNCHANGED child
    /\ UNCHANGED <<stdin, environ, native_event, config, tool, adapter, event, stdout,
                   exit_code, harness_vars, git, calls, cli>>

\* client.send_event_async(canonical_event) in the parent: fork and go on, send
\* in this process when fork raises AttributeError or OSError
SendEventAsync ==
    /\ pc = "send_event_async"
    /\ \E fork \in ForkOutcomes :
           CASE fork = "forked" ->
                    child' = "forked" /\ pc' = "output_response" /\ UNCHANGED sends
             [] fork \in {"AttributeError", "OSError"} ->
                    /\ \E http \in HttpOutcomes :
                           sends' = Append(sends, [process |-> "parent",
                                                   response |-> send_event(config, http)])
                    /\ pc' = "output_response" /\ UNCHANGED child
    /\ UNCHANGED <<stdin, environ, native_event, config, tool, adapter, event, stdout,
                   exit_code, harness_vars, git, calls, cli>>

\* a child that returns from send_event_async instead of leaving through os._exit
ChildSend_returning ==
    /\ child = "forked"
    /\ \E http \in HttpOutcomes :
           sends' = Append(sends, [process |-> "child",
                                   response |-> send_event(config, http)])
    /\ child' = "exited"
    /\ output_response(Response)
    /\ UNCHANGED <<pc, stdin, environ, native_event, config, tool, adapter, event,
                   exit_code, harness_vars, git, calls, cli>>

\* the child of the fork: self.send_event(event), then os._exit(0)
ChildSend ==
    /\ child = "forked"
    /\ \E http \in HttpOutcomes :
           sends' = Append(sends, [process |-> "child",
                                   response |-> send_event(config, http)])
    /\ child' = "exited"
    /\ UNCHANGED <<pc, stdin, environ, native_event, config, tool, adapter, event,
                   stdout, exit_code, harness_vars, git, calls, cli>>

\* a parent that waits for its child before it answers
Respond_after_child ==
    /\ pc = "output_response"
    /\ child # "forked"
    /\ output_response(Response) /\ return(0)
    /\ UNCHANGED <<stdin, environ, native_event, config, tool, adapter, event, child,
                   sends, harness_vars, git, calls, cli>>

\* output_response({"continue": True}); return 0
Respond ==
    /\ pc = "output_response"
    /\ output_response(Response) /\ return(0)
    /\ UNCHANGED <<stdin, environ, native_event, config, tool, adapter, event, child,
                   sends, harness_vars, git, calls, cli>>

\* the handler that returns the blocking-error code of the docstring
HandleException_returns_2 ==
    /\ pc = "except"
    /\ output_response(Response) /\ return(2)
    /\ UNCHANGED <<stdin, environ, native_event, config, tool, adapter, event, child,
                   sends, harness_vars, git, calls, cli>>

\* except Exception: output_response({"continue": True}); return 0
HandleException ==
    /\ pc = "except"
    /\ output_response(Response) /\ return(0)
    /\ UNCHANGED <<stdin, environ, native_event, config, tool, adapter, event, child,
                   sends, harness_vars, git, calls, cli>>

Next ==
    \/ ReadStdin \/ LoadConfig \/ DetectTool \/ GetAdapter \/ Translate
    \/ SendEventAsync \/ ChildSend \/ Respond \/ HandleException

Spec == Init /\ [][Next]_vars

OverrideValue == get(environ, "PROMPTCONDUIT_TOOL")

\* C10: with a non-empty override, detect_tool returns the override lower-cased
\* whatever the event holds, get_adapter yields the adapter registered under that
\* identifier (none when nothing is), and the event is translated by that adapter.
C10_OverrideRoutes ==
    [][Truthy(OverrideValue) =>
          LET id == lower(The(OverrideValue).text)
          IN  /\ pc = "detect_tool" => pc' = "get_adapter" /\ tool' = Text(id)
              /\ pc = "get_adapter" =>
                     IF id \in DOMAIN ADAPTERS
                     THEN adapter' # None /\ The(adapter').cls = ADAPTERS[id]
                     ELSE adapter' = None
              /\ (pc = "translate_event" /\ event' # None) =>
                     The(event').tool = TOOL(ADAPTERS[id])]_vars

\* C10's case: the override "Cursor" sent a Claude Code event to the Cursor adapter
C10_OverrideBeatsName ==
    /\ pc = "done"
    /\ OverrideValue = Text(<<"C", "u", "r", "s", "o", "r">>)
    /\ IsDict(native_event)
    /\ get(The(native_event).dict, "hook_event_name") = Str("PreToolUse")
    /\ tool = Text(CURSOR_ID)
    /\ adapter # None /\ The(adapter).cls = "CursorAdapter"

\* the event carries no name: each name field is absent, null or ""
NameEmpty(native) ==
    \A k \in {"hook_event_name", "type"} : get(native, k) \in {None, Str("")}

\* C11 as stated: an event with an empty or absent name is never detected,
\* whatever other fields it carries.
C11_EmptyNameNeverDetected ==
    (pc = "translated" /\ NameEmpty(The(native_event).dict)) => detected = Return(None)

\* C11 as amended: with no override, an event with an empty or absent name and no
\* true cursor_version marker is never detected, whatever other fields it carries.
C11_EmptyNameWithoutMarkerNotDetected ==
    (/\ pc = "translated"
     /\ NameEmpty(The(native_event).dict)
     /\ ~Truthy(get(The(native_event).dict, "cursor_version")))
    => detected = Return(None)

\* C11's case: a prompt event without a name went through detection
C11_NamelessPrompt ==
    /\ pc = "translated"
    /\ NameEmpty(The(native_event).dict)
    /\ get(The(native_event).dict, "prompt") = Str("hello")
    /\ detected = Return(None)

\* the adapter classes whose translate_event finds the event's name in its table
Recognising(native) ==
    {cls \in AdapterClasses :
        LET name == read_event_name(Adapter(cls, FALSE), native)
        IN  name # None /\ "str" \in DOMAIN The(name)
                /\ The(name).str \in DOMAIN EVENT_MAPPING(cls)}

\* C12: translate_event of an adapter whose table holds the event's name returns a
\* CanonicalEvent and does not raise, whatever the optional native fields hold.
C12_TranslateNeverRaises ==
    pc = "translated" =>
        \A cls \in Recognising(The(native_event).dict) : IsEvent(translated[cls])

\* the tool_response of a native event as ClaudeCodeAdapter._translate_tool reads it
ResponseRead(native) == getd(native, "tool_response", Dict(<<>>))

\* the response is a dict with a true error or is_error field
MarksError(response) ==
    /\ IsDict(response)
    /\ \/ Truthy(get(The(response).dict, "error"))
       \/ Truthy(get(The(response).dict, "is_error"))

\* error, else message, else the rendering of the whole response
ErrorText(response) ==
    IF Truthy(get(The(response).dict, "error")) THEN get(The(response).dict, "error")
    ELSE IF Truthy(get(The(response).dict, "message")) THEN get(The(response).dict, "message")
    ELSE Repr(response)

\* C13: in a Claude Code PostToolUse event, success is false iff tool_response is a
\* dict with a true error or is_error field; then error_message is error, else
\* message, else the rendering of the response; otherwise error_message is unset.
C13_ClaudePostSuccess ==
    (/\ pc = "translated"
     /\ IsEvent(translated["ClaudeCodeAdapter"])
     /\ The(translated["ClaudeCodeAdapter"].value).event_type = EventType("tool_post"))
    => LET payload == The(The(translated["ClaudeCodeAdapter"].value).tool_event)
           response == ResponseRead(The(native_event).dict)
       IN  /\ payload.success = Bool(~MarksError(response))
           /\ payload.error_message =
                  IF MarksError(response) THEN ErrorText(response) ELSE None

\* C13's case: the response {"is_error": true, "message": "boom"} gave "boom"
C13_BoomReported ==
    /\ pc = "translated"
    /\ IsEvent(translated["ClaudeCodeAdapter"])
    /\ ResponseRead(The(native_event).dict) =
           Dict([is_error |-> Bool(TRUE), message |-> Str("boom")])
    /\ The(translated["ClaudeCodeAdapter"].value).event_type = EventType("tool_post")
    /\ The(The(translated["ClaudeCodeAdapter"].value).tool_event).success = Bool(FALSE)
    /\ The(The(translated["ClaudeCodeAdapter"].value).tool_event).error_message = Str("boom")

\* the event is a Gemini AfterTool event and a Claude Code PostToolUse event at
\* once, carrying the same value as tool_output and as tool_response
SameResponseBothTools ==
    /\ pc = "translated"
    /\ IsEvent(translated["ClaudeCodeAdapter"])
    /\ IsEvent(translated["GeminiAdapter"])
    /\ The(translated["ClaudeCodeAdapter"].value).event_type = EventType("tool_post")
    /\ The(translated["GeminiAdapter"].value).event_type = EventType("tool_post")
    /\ {"tool_output", "tool_response"} \subseteq DOMAIN The(native_event).dict
    /\ The(native_event).dict["tool_output"] = The(native_event).dict["tool_response"]

\* success and error_message of the two translations agree
SameVerdict ==
    LET a == The(The(translated["ClaudeCodeAdapter"].value).tool_event)
        c == The(The(translated["GeminiAdapter"].value).tool_event)
    IN  a.success = c.success /\ a.error_message = c.error_message

\* C14 as stated: a Gemini AfterTool event carrying v as tool_output and a Claude
\* Code PostToolUse event carrying v as tool_response, otherwise identical, yield
\* the same success and the same error_message, for every v.
C14_GeminiMirrorsClaude == SameResponseBothTools => SameVerdict

\* C14 as amended: the same, for every true v, and for every false v when the
\* events carry no true `output` field.
C14_GeminiMirrorsClaudeOnItsOwnField ==
    (/\ SameResponseBothTools
     /\ \/ Truthy(The(native_event).dict["tool_output"])
        \/ ~Truthy(get(The(native_event).dict, "output")))
    => SameVerdict

\* C14's case: both adapters reported the failure {"is_error": true, "message": "boom"}
C14_BothReportBoom ==
    /\ SameResponseBothTools
    /\ The(native_event).dict["tool_output"] =
           Dict([is_error |-> Bool(TRUE), message |-> Str("boom")])
    /\ The(The(translated["GeminiAdapter"].value).tool_event).success = Bool(FALSE)
    /\ The(The(translated["GeminiAdapter"].value).tool_event).error_message = Str("boom")
    /\ SameVerdict

\* C15: every Cursor shell post-event and MCP post-event reports success with no
\* error_message, whatever its output or result holds; the output of a shell
\* post-event is the standard-output text alone and its duration_ms the duration.
C15_CursorPostAlwaysSucceeds ==
    (/\ pc = "translated"
     /\ IsEvent(translated["CursorAdapter"])
     /\ The(translated["CursorAdapter"].value).event_type
            \in {EventType("shell_post"), EventType("tool_post")})
    => LET e == The(translated["CursorAdapter"].value)
           payload == The(e.tool_event)
           native == The(native_event).dict
       IN  /\ payload.success = Bool(TRUE)
           /\ payload.error_message = None
           /\ e.event_type = EventType("shell_post") =>
                  /\ payload.output = Dict([stdout |-> get(native, "output")])
                  /\ payload.duration_ms = get(native, "duration")

\* C15's case: a shell post-event whose output carries an error marker
C15_ShellErrorMarkerIgnored ==
    /\ pc = "translated"
    /\ IsEvent(translated["CursorAdapter"])
    /\ The(translated["CursorAdapter"].value).event_type = EventType("shell_post")
    /\ get(The(native_event).dict, "output") =
           Dict([is_error |-> Bool(TRUE), message |-> Str("boom")])
    /\ The(The(translated["CursorAdapter"].value).tool_event).success = Bool(TRUE)

\* the working directory the event itself names: cwd, else context.workingDirectory
DirectoryNamed(native) ==
    Or(get(native, "cwd"),
       get(The(getd(native, "context", Dict(<<>>))).dict, "workingDirectory"))

\* C16: a Cursor event with a recognised name and a non-empty list of workspace
\* roots comes back with a workspace whose repo_path is the first root and whose
\* working_directory is the directory the event names, or the first root when it
\* names none.
C16_FirstRootSeedsWorkspace ==
    (/\ pc = "translated"
     /\ IsEvent(translated["CursorAdapter"])
     /\ Truthy(get(The(native_event).dict, "workspace_roots"))
     /\ "list" \in DOMAIN The(get(The(native_event).dict, "workspace_roots")))
    => LET e == The(translated["CursorAdapter"].value)
           native == The(native_event).dict
           root == The(native["workspace_roots"]).list[1]
       IN  /\ e.workspace # None
           /\ The(e.workspace).repo_path = root
           /\ The(e.workspace).working_directory =
                  IF Truthy(DirectoryNamed(native)) THEN DirectoryNamed(native) ELSE root

\* the name is a string that is a key of TOOL_NAME_MAPPING
IsGeminiName(n) == n # None /\ "str" \in DOMAIN The(n) /\ The(n).str \in DOMAIN TOOL_NAME_MAPPING

PostTypes == {EventType("tool_post"), EventType("shell_post")}

\* the event types that are the pre half of a pre/post pair
PreTypes == {EventType("tool_pre"), EventType("shell_pre")}

\* C18: in every ToolPayload an adapter produces, error_message is set only
\* when success is false, success is set only in tool_post and shell_post
\* events, output is set only in tool_post and shell_post events, and a tool_pre
\* or shell_pre event has success, output and error_message all unset.
C18_ToolPayloadFieldsFollowEventType ==
    pc = "translated" =>
        \A c \in AdapterClasses :
            (IsEvent(translated[c]) /\ The(translated[c].value).tool_event # None)
            => LET e == The(translated[c].value)
                   p == The(e.tool_event)
               IN  /\ p.error_message # None => p.success = Bool(FALSE)
                   /\ p.success # None => e.event_type \in PostTypes
                   /\ p.output # None => e.event_type \in PostTypes
                   /\ e.event_type \in PreTypes
                        => p.success = None /\ p.output = None /\ p.error_message = None

\* C19: every WorkspaceContext attached to an event has at least one of
\* repo_name, repo_path, working_directory, files_referenced set; an event from
\* which none of them can be derived has no workspace at all.
C19_WorkspaceNeverHollow ==
    pc = "translated" =>
        \A c \in AdapterClasses :
            (IsEvent(translated[c]) /\ The(translated[c].value).workspace # None)
            => LET w == The(The(translated[c].value).workspace)
               IN  \/ w.repo_name # None
                   \/ w.repo_path # None
                   \/ w.working_directory # None
                   \/ w.files_referenced # None

\* C20: an event main() has produced carries the whole native payload in
\* raw_event if and only if config.debug is set; when it is not set raw_event
\* is None and the serialized event has no raw_event key, and when it is set
\* the serialized event carries the native payload under raw_event.
C20_RawEventIffDebug ==
    event # None =>
        LET e == The(event)
            d == CanonicalEvent_to_dict(e)
        IN  /\ (e.raw_event = native_event) <=> config.debug
            /\ ~config.debug => e.raw_event = None /\ "raw_event" \notin DOMAIN d
            /\ config.debug => "raw_event" \in DOMAIN d /\ d["raw_event"] = native_event

\* C20's case: PROMPTCONDUIT_DEBUG=1 and the event holds the native payload
C20_DebugKeepsPayload ==
    /\ event # None
    /\ get(environ, "PROMPTCONDUIT_DEBUG") = Str("1")
    /\ The(event).raw_event = native_event
    /\ "session_id" \in DOMAIN The(native_event).dict

\* ------------------------------------------------------------------------
\* a process that calls translate_event again and again
\* ------------------------------------------------------------------------

\* the native events of the calls: two that ask for the same event, one of them
\* with an identifier and a timestamp of its own, and one no adapter knows
CallEvents ==
    {[hook_event_name |-> Str("SessionEnd")],
     [hook_event_name |-> Str("SessionEnd"), event_id |-> Str("e0"), timestamp |-> Str("t0")],
     [hook_event_name |-> Str("SomeUnknownEvent")]}

\* what the subprocesses of a call do: no probe is needed without a directory
CallEnv == [ws_probe |-> Exit(128, <<>>), git |-> AllOk]

CallsInit ==
    /\ pc = "calls"
    /\ calls = [returned |-> <<>>, clock |-> 0, issued |-> 0]
    /\ MainIdle /\ HarnessIdle /\ GitIdle /\ CliIdle

\* one adapter.translate_event(native_event): uuid.uuid4() gives an identifier
\* not given before, datetime.now(timezone.utc) reads the system clock, which
\* has not always advanced since the call before
TranslateCall ==
    /\ pc = "calls"
    /\ Len(calls.returned) < MaxCalls
    /\ \E cls \in AdapterClasses, native \in CallEvents,
          now \in {calls.clock, calls.clock + 1} :
           LET env == [ws_probe |-> CallEnv.ws_probe, git |-> CallEnv.git,
                       uuid |-> calls.issued + 1, now |-> now]
               r == translate_event(Adapter(cls, FALSE), Dict(native), env)
               drew == ~IsRaise(r) /\ r.value # None
           IN  calls' = [returned |-> Append(calls.returned,
                                             [cls |-> cls, native |-> native, result |-> r]),
                         clock |-> IF drew THEN now ELSE calls.clock,
                         issued |-> IF drew THEN calls.issued + 1 ELSE calls.issued]
    /\ UNCHANGED <<pc, main_vars, harness_vars, git, cli>>

CallsNext == TranslateCall

SpecCalls == CallsInit /\ [][CallsNext]_vars

\* the calls that returned an event
EventCalls == {i \in DOMAIN calls.returned : IsEvent(calls.returned[i].result)}

\* C21: every event returned by a sequence of translate_event calls has an
\* event_id and a timestamp, no two of the events share an event_id or a
\* timestamp, and neither value is a value of the native event.
C21_FreshIdAndTimestamp ==
    pc = "calls" =>
        /\ \A i \in EventCalls :
               LET e == The(calls.returned[i].result.value)
                   n == calls.returned[i].native
               IN  /\ e.event_id # None /\ e.timestamp # None
                   /\ \A k \in DOMAIN n : e.event_id # n[k] /\ e.timestamp # n[k]
        /\ \A i, j \in EventCalls :
               i # j =>
                   LET a == The(calls.returned[i].result.value)
                       b == The(calls.returned[j].result.value)
                   IN  a.event_id # b.event_id /\ a.timestamp # b.timestamp

\* C22: whatever the send does, send_event_async goes on to the response without
\* writing or returning anything itself, the child's send changes nothing of
\* main(), and main() then writes {"continue": true} and returns 0, with a
\* fork and on the blocking fallback alike.
C22_DeliveryFailureUnobserved ==
    [][/\ pc = "send_event_async"
            => pc' = "output_response" /\ stdout' = stdout /\ exit_code' = exit_code
       /\ (child = "forked" /\ child' = "exited")
            => pc' = pc /\ stdout' = stdout /\ exit_code' = exit_code
       /\ (pc = "output_response" /\ pc' # pc)
            => pc' = "done" /\ stdout' = <<Response>> /\ exit_code' = Num(0)]_vars

\* C22's case: the blocking fallback could not deliver, and main() answered as ever
C22_FallbackFailedQuietly ==
    /\ pc = "done" /\ child = "none"
    /\ Len(sends) = 1 /\ sends[1].process = "parent" /\ ~sends[1].response.success
    /\ stdout = <<Response>> /\ exit_code = Num(0)

\* the runs followed to their end: input that cannot be read, a value that is no
\* event, an event of each tool, with and without a key
FairStdins ==
    {[kind |-> "JSONDecodeError"], [kind |-> "UnicodeDecodeError"],
     [kind |-> "json", value |-> List(<<>>)]}
        \cup {[kind |-> "json",
               value |-> Dict([hook_event_name |-> Str(n), session_id |-> Str("s1"),
                               cwd |-> Text(RepoDir), prompt |-> Str("hello")])] :
                 n \in {"UserPromptSubmit", "beforeSubmitPrompt", "BeforeAgent",
                        "SomeUnknownEvent"}}

FairEnvirons == {<<>>, [PROMPTCONDUIT_API_KEY |-> Str("key")]}

FairInit ==
    /\ pc = "main"
    /\ stdin \in FairStdins
    /\ environ \in FairEnvirons
    /\ native_event = None /\ config = NotStarted
    /\ tool = None /\ adapter = None /\ event = None /\ stdout = <<>> /\ exit_code = None
    /\ child = "none" /\ sends = <<>>
    /\ HarnessIdle /\ GitIdle /\ CallsIdle /\ CliIdle

\* once send_event_async has returned, main() goes on to its last statements;
\* nothing makes the child's request complete
SpecFair == FairInit /\ [][Next]_vars /\ WF_vars(Respond)

\* C23: once the send is with the forked child, the parent writes its response
\* and is over, whether or not the child's send ever completes; a response
\* that comes after a send of the parent's own is a run in which no child was
\* forked.
C23_ParentNeverWaitsForChild ==
    /\ (child = "forked") ~> (pc = "done" /\ stdout = <<Response>>)
    /\ [](\A i \in DOMAIN sends : sends[i].process = "parent" => child = "none")

\* C23's case: main() is over while the child has not sent yet
C23_DoneBeforeChildSent ==
    pc = "done" /\ child = "forked" /\ sends = <<>> /\ stdout = <<Response>>

\* a configuration without an API key
NoKey == get_config(<<>>)

\* C24: send_event returns an ApiResponse whatever happens: a response of a
\* send that failed (remote unreachable, status outside 2xx, no API key) has
\* success = false and an error description, and a response with a status
\* from 200 to 299 has success = true.
C24_BlockingSendReportsFailure ==
    /\ \A i \in DOMAIN sends :
           LET r == sends[i].response
           IN  /\ r.status_code \in 200..299 => r.success
               /\ ~r.success => r.error # None
               /\ r.success => r.status_code \in 200..299
    /\ \A http \in HttpOutcomes :
           LET r == send_event(NoKey, http)
           IN  ~r.success /\ r.error # None

\* the names for which translate_event of an adapter of the class returns an event
Recognised(cls) ==
    {n \in EventNames :
        IsEvent(translate_event(Adapter(cls, FALSE), Dict([hook_event_name |-> Str(n)]),
                                [ws_probe |-> CallEnv.ws_probe, git |-> CallEnv.git,
                                 uuid |-> 1, now |-> 1]))}

\* C25: the adapters recognise ten (Claude Code), twelve (Cursor) and twelve
\* (Gemini CLI) native event names, and an event named by hook_event_name alone
\* is translated by an adapter exactly when its name is one of those.
C25_RecognisedNameCounts ==
    /\ Cardinality(Recognised("ClaudeCodeAdapter")) = 10
    /\ Cardinality(Recognised("CursorAdapter")) = 12
    /\ Cardinality(Recognised("GeminiAdapter")) = 12
    /\ (pc = "translated" /\ DOMAIN The(native_event).dict = {"hook_event_name"})
        => \A cls \in AdapterClasses :
               IsEvent(translated[cls])
                   <=> \E n \in Recognised(cls) :
                           The(native_event).dict["hook_event_name"] = Str(n)

\* the detector's set of event names for the tool of an adapter class
DetectorSet(cls) ==
    CASE cls = "ClaudeCodeAdapter" -> CLAUDE_CODE_EVENTS
      [] cls = "CursorAdapter" -> CURSOR_EVENTS
      [] cls = "GeminiAdapter" -> GEMINI_EVENTS

\* the identifiers detect_tool returns for the tool of an adapter class
DetectorIds(cls) == {id \in DOMAIN ADAPTERS : ADAPTERS[id] = cls}

\* C26: the detector's three sets are pairwise disjoint, each is the key set
\* of its adapter's EVENT_MAPPING, and an event of tool X, whose
\* hook_event_name is a key of X's table, is detected as X with no override and
\* translated by X's adapter into an event tagged X, for each of the three tools.
C26_DetectionFollowsTheTables ==
    /\ \A c, d \in AdapterClasses : c # d => DetectorSet(c) \cap DetectorSet(d) = {}
    /\ \A c \in AdapterClasses : DetectorSet(c) = DOMAIN EVENT_MAPPING(c)
    /\ (pc = "translated" /\ DOMAIN The(native_event).dict = {"hook_event_name"})
        => \A cls \in AdapterClasses :
               (\E n \in DOMAIN EVENT_MAPPING(cls) :
                    The(native_event).dict["hook_event_name"] = Str(n))
               => /\ ~IsRaise(detected)
                  /\ detected.value # None
                  /\ The(detected.value).text \in DetectorIds(cls)
                  /\ IsEvent(translated[cls])
                  /\ The(translated[cls].value).tool = TOOL(cls)

\* main() has been through send_event_async
Handed == event # None /\ pc \in {"output_response", "done"}

\* C27: an event handed to send_event_async is sent once: after a fork the
\* parent sends nothing and the child sends once and is then gone, without a
\* fork the parent sends once, never both and never neither; and whatever the
\* child does, one response is written per run.
C27_DeliveredExactlyOnce ==
    /\ Len(sends) <= 1
    /\ ~Handed => sends = <<>> /\ child = "none"
    /\ Handed =>
           \/ child = "forked" /\ sends = <<>>
           \/ child = "exited" /\ Len(sends) = 1 /\ sends[1].process = "child"
           \/ child = "none" /\ Len(sends) = 1 /\ sends[1].process = "parent"
    /\ Len(stdout) <= 1
    /\ pc = "done" => Len(stdout) = 1

\* C27's case: the child's attempt failed and the child is gone, main() is over
C27_ChildTriedAndExited ==
    /\ pc = "done" /\ child = "exited"
    /\ Len(sends) = 1 /\ sends[1].process = "child" /\ ~sends[1].response.success
    /\ Len(stdout) = 1

\* get_config() has run and found an API key
Configured == config # NotStarted /\ is_configured(config)

\* C28: main() is at detection or beyond only with stdin parsed and an API key
\* configured, at get_adapter or beyond only with a tool detected, at
\* translation or beyond only with an adapter, at the send only with an event;
\* a fork or a send has happened only in a run where all five hold; and a run
\* without an API key has detected nothing and translated nothing, so no git
\* or workspace probe was run.
C28_SendOnlyAfterEveryCheck ==
    /\ pc \in {"detect_tool", "get_adapter", "translate_event", "send_event_async"}
        => stdin.kind = "json" /\ native_event = stdin.value /\ Configured
    /\ pc \in {"get_adapter", "translate_event", "send_event_async"} => Truthy(tool)
    /\ pc \in {"translate_event", "send_event_async"} => adapter # None
    /\ pc = "send_event_async" => event # None
    /\ (child # "none" \/ sends # <<>>)
        => /\ stdin.kind = "json" /\ Configured
           /\ Truthy(tool) /\ adapter # None /\ event # None
    /\ ~Configured => tool = None /\ adapter = None /\ event = None

\* C28's case: a well-formed event and no API key: answered with nothing run
C28_NoKeyNothingRun ==
    /\ pc = "done" /\ stdin.kind = "json" /\ IsDict(native_event)
    /\ config # NotStarted /\ ~is_configured(config)
    /\ tool = None /\ event = None /\ sends = <<>> /\ child = "none"
    /\ stdout = <<Response>>

\* the working_directory of an event's workspace, None without a workspace
WorkspaceDirectory(e) ==
    IF e.workspace = None THEN None ELSE The(e.workspace).working_directory

\* C29: for every translated event the directory given to extract_git_context
\* is the working_directory of the event's workspace, both absent or both the
\* same path, and an event with a git context has a workspace with a
\* working_directory.
C29_OneWorkingDirectory ==
    pc = "translated" =>
        \A cls \in AdapterClasses :
            IsEvent(translated[cls])
            => LET e == The(translated[cls].value)
               IN  /\ base_working_dir(The(native_event).dict) = WorkspaceDirectory(e)
                   /\ e.git # None => WorkspaceDirectory(e) # None


\* ------------------------------------------------------------------------
\* cli/main.py: cmd_install, cmd_uninstall on the settings file of one tool
\* ------------------------------------------------------------------------

\* the tools the commands know
TOOL_CONFIGS == {"claude-code", "cursor", "gemini"}

\* the text uninstall looks for
PROMPTCONDUIT == <<"p", "r", "o", "m", "p", "t", "c", "o", "n", "d", "u", "i", "t">>

\* sub in t, for two strings
contains(t, sub) ==
    \E i \in 1..(Len(t) - Len(sub) + 1) : SubSeq(t, i, i + Len(sub) - 1) = sub

\* "promptconduit" in str(h).lower(): some string inside h holds the text (the
\* keys of the dicts of a settings file do not)
RECURSIVE mentions_promptconduit(_)
mentions_promptconduit(h) ==
    IF h = None THEN FALSE
    ELSE LET x == The(h)
         IN  CASE "text" \in DOMAIN x -> contains(lower(x.text), PROMPTCONDUIT)
               [] "list" \in DOMAIN x ->
                      \E i \in DOMAIN x.list : mentions_promptconduit(x.list[i])
               [] "dict" \in DOMAIN x ->
                      \E k \in DOMAIN x.dict : mentions_promptconduit(x.dict[k])
               [] OTHER -> FALSE

\* get_hook_script_path(): the script inside the package, or the bare name
ScriptPaths == {<<"/", "p", "/", "s", "c", "r", "i", "p", "t", "s", "/", "p", "r", "o", "m", "p", "t", "c", "o", "n", "d", "u", "i", "t", "_", "h", "o", "o", "k", ".", "p", "y">>,
                <<"p", "r", "o", "m", "p", "t", "c", "o", "n", "d", "u", "i", "t", "_", "h", "o", "o", "k", ".", "p", "y">>}

\* f'python3 "{script_path}"'
hook_command(script_path) == <<"p", "y", "t", "h", "o", "n", "3", " ", "\"">> \o script_path \o <<"\"">>

COMMAND == Text(<<"c", "o", "m", "m", "a", "n", "d">>)

STAR == Text(<<"*">>)

_build_claude_code_hooks(script_path) ==
    LET hook_entry == Dict([type |-> COMMAND, command |-> Text(hook_command(script_path)),
                            timeout |-> Num(5000)])
        plain == <<Dict([hooks |-> List(<<hook_entry>>)])>>
        matching == <<Dict([matcher |-> STAR, hooks |-> List(<<hook_entry>>)])>>
    IN  [UserPromptSubmit |-> plain, PreToolUse |-> matching, PostToolUse |-> matching,
         SessionStart |-> plain, SessionEnd |-> plain]

_build_cursor_hooks(script_path) ==
    LET hook_entry == Dict([command |-> Text(hook_command(script_path))])
    IN  [beforeSubmitPrompt |-> <<hook_entry>>, beforeShellExecution |-> <<hook_entry>>,
         afterShellExecution |-> <<hook_entry>>, afterFileEdit |-> <<hook_entry>>]

_build_gemini_hooks(script_path) ==
    LET hook_entry == Dict([type |-> COMMAND, command |-> Text(hook_command(script_path)),
                            name |-> Text(PROMPTCONDUIT), timeout |-> Num(5000)])
        plain == <<Dict([hooks |-> List(<<hook_entry>>)])>>
        matching == <<Dict([matcher |-> STAR, hooks |-> List(<<hook_entry>>)])>>
    IN  [BeforeAgent |-> plain, BeforeTool |-> matching, AfterTool |-> matching,
         SessionStart |-> plain, SessionEnd |-> plain]

\* the hooks cmd_install builds for the tool
build_hooks(tool_name, script_path) ==
    CASE tool_name = "claude-code" -> _build_claude_code_hooks(script_path)
      [] tool_name = "cursor" -> _build_cursor_hooks(script_path)
      [] tool_name = "gemini" -> _build_gemini_hooks(script_path)

\* the settings file: not there, no JSON, or a JSON object
Absent == [kind |-> "absent"]

Invalid == [kind |-> "invalid"]

Json(settings) == [kind |-> "json", settings |-> settings]

\* for hook in event_hooks: if hook not in the list: append it
RECURSIVE append_new(_, _)
append_new(list, event_hooks) ==
    IF event_hooks = <<>> THEN list
    ELSE append_new(IF \E i \in DOMAIN list : list[i] = Head(event_hooks)
                    THEN list ELSE Append(list, Head(event_hooks)),
                    Tail(event_hooks))

\* the settings["hooks"] of a settings object, {} when it has none
hooks_of(settings) ==
    IF "hooks" \in DOMAIN settings THEN The(settings["hooks"]).dict ELSE <<>>

\* cmd_install: the file it leaves
cmd_install(tool_name, file, script_path) ==
    LET settings == IF file.kind = "json" THEN file.settings ELSE <<>>
        hooks == build_hooks(tool_name, script_path)
        old == hooks_of(settings)
        merged == [event_name \in DOMAIN old \cup DOMAIN hooks |->
                      IF event_name \in DOMAIN hooks
                      THEN List(append_new(IF event_name \in DOMAIN old
                                           THEN The(old[event_name]).list ELSE <<>>,
                                           hooks[event_name]))
                      ELSE old[event_name]]
    IN  Json([k \in DOMAIN settings \cup {"hooks"} |->
                 IF k = "hooks" THEN Dict(merged) ELSE settings[k]])

\* the entries of a per-event list that uninstall keeps
kept_hooks(list) ==
    LET keep(h) == ~mentions_promptconduit(h)
    IN  SelectSeq(list, keep)

\* cmd_uninstall: the file it leaves and the code it returns
cmd_uninstall(tool_name, file) ==
    IF file.kind = "absent" THEN [file |-> file, code |-> 0]
    ELSE IF file.kind = "invalid" THEN [file |-> file, code |-> 1]
    ELSE IF "hooks" \notin DOMAIN file.settings THEN [file |-> file, code |-> 0]
    ELSE
    LET settings == file.settings
        old == hooks_of(settings)
        left == {event_name \in DOMAIN old : kept_hooks(The(old[event_name]).list) # <<>>}
        hooks == [event_name \in left |-> List(kept_hooks(The(old[event_name]).list))]
    IN  [file |-> IF left = {}
                  THEN Json([k \in DOMAIN settings \ {"hooks"} |-> settings[k]])
                  ELSE Json([settings EXCEPT !["hooks"] = Dict(hooks)]),
         code |-> 0]

\* the most commands run on one settings file
MaxCommands == 3

\* a hook of the user's own
UserHook(tool_name) ==
    IF tool_name = "cursor" THEN Dict([command |-> Text(<<"l", "i", "n", "t", ".", "s", "h">>)])
    ELSE Dict([type |-> COMMAND, command |-> Text(<<"l", "i", "n", "t", ".", "s", "h">>)])

\* the event the user's hook is registered for
UserEvent(tool_name) ==
    CASE tool_name = "claude-code" -> "PreToolUse"
      [] tool_name = "cursor" -> "afterFileEdit"
      [] tool_name = "gemini" -> "BeforeTool"

\* an entry of a per-event list holding the hooks given, as the tool writes it
UserEntries(tool_name, hooks) ==
    IF tool_name = "cursor" THEN hooks
    ELSE <<Dict([matcher |-> STAR, hooks |-> List(hooks)])>>

\* the hook_entry of the tool as cmd_install writes it for that event
OurHooks(tool_name, script_path) ==
    LET entry == build_hooks(tool_name, script_path)[UserEvent(tool_name)][1]
    IN  IF tool_name = "cursor" THEN <<entry>> ELSE The(The(entry).dict["hooks"]).list

\* the settings files the commands start from: none, no JSON, an empty object,
\* other settings only, a hook of the user's own, an empty per-event list, and
\* the user's hook in one matcher group with the installed hook
CliFiles(tool_name, script_path) ==
    LET one(ev, entries) == Json([hooks |-> Dict((ev :> List(entries)))])
        ours == OurHooks(tool_name, script_path)
    IN  {Absent, Invalid, Json(<<>>),
         Json([model |-> Text(<<"m">>)]),
         Json([model |-> Text(<<"m">>), hooks |-> Dict(<<>>)]),
         one(UserEvent(tool_name), UserEntries(tool_name, <<UserHook(tool_name)>>)),
         one("Stop", <<>>),
         one(UserEvent(tool_name),
             UserEntries(tool_name, <<UserHook(tool_name)>> \o ours))}

CliInit ==
    /\ pc = "cli"
    /\ \E tool_name \in TOOL_CONFIGS, script_path \in ScriptPaths :
           \E file \in CliFiles(tool_name, script_path) :
               cli = [tool |-> tool_name, script_path |-> script_path, original |-> file,
                      before |-> file, file |-> file, log |-> <<>>, code |-> 0]
    /\ MainIdle /\ HarnessIdle /\ GitIdle /\ CallsIdle

\* promptconduit install <tool>
Install ==
    /\ pc = "cli"
    /\ Len(cli.log) < MaxCommands
    /\ cli' = [cli EXCEPT !.before = cli.file,
                          !.file = cmd_install(cli.tool, cli.file, cli.script_path),
                          !.log = Append(cli.log, "install"),
                          !.code = 0]
    /\ UNCHANGED <<pc, main_vars, harness_vars, git, calls>>

\* promptconduit uninstall <tool>
Uninstall ==
    /\ pc = "cli"
    /\ Len(cli.log) < MaxCommands
    /\ LET r == cmd_uninstall(cli.tool, cli.file)
       IN  cli' = [cli EXCEPT !.before = cli.file,
                              !.file = r.file,
                              !.log = Append(cli.log, "uninstall"),
                              !.code = r.code]
    /\ UNCHANGED <<pc, main_vars, harness_vars, git, calls>>

CliNext == Install \/ Uninstall

SpecCli == CliInit /\ [][CliNext]_vars

\* the per-event lists of a settings file
EventHooks(file) == IF file.kind = "json" THEN hooks_of(file.settings) ELSE <<>>

\* the hook entries of one element of a per-event list: the hooks of a matcher
\* group, or the element itself
Leaves(entry) ==
    IF IsDict(entry) /\ "hooks" \in DOMAIN The(entry).dict
    THEN The(The(entry).dict["hooks"]).list
    ELSE <<entry>>

\* the places of a per-event list where the hook entry stands
Occurrences(list, hook) ==
    {p \in UNION {{<<i, j>> : j \in DOMAIN Leaves(list[i])} : i \in DOMAIN list} :
        Leaves(list[p[1]])[p[2]] = hook}

\* the hook entries of a per-event list
LeavesOf(list) ==
    UNION {{Leaves(list[i])[j] : j \in DOMAIN Leaves(list[i])} : i \in DOMAIN list}

\* the hook entries of a file that are not PromptConduit's, with their events
ForeignHooks(file) ==
    UNION {{<<event_name, hook>> :
               hook \in {h \in LeavesOf(The(EventHooks(file)[event_name]).list) :
                            ~mentions_promptconduit(h)}} :
           event_name \in DOMAIN EventHooks(file)}

\* the last commands run were these
LogEndsWith(commands) ==
    /\ Len(cli.log) >= Len(commands)
    /\ SubSeq(cli.log, Len(cli.log) - Len(commands) + 1, Len(cli.log)) = commands

\* first part of C30: no PromptConduit hook entry stands twice under one event
\* name, and a second install in a row changes nothing.
InstalledOnce ==
    pc = "cli" =>
        /\ \A event_name \in DOMAIN EventHooks(cli.file) :
               LET list == The(EventHooks(cli.file)[event_name]).list
               IN  \A hook \in LeavesOf(list) :
                       mentions_promptconduit(hook) => Cardinality(Occurrences(list, hook)) <= 1
        /\ LogEndsWith(<<"install", "install">>) => cli.file = cli.before

\* second part of C30: the hook entries that are not PromptConduit's are the ones
\* the file started with.
ForeignUntouched ==
    pc = "cli" => ForeignHooks(cli.file) = ForeignHooks(cli.original)

\* third part of C30: directly after an uninstall the file has no PromptConduit
\* hook entry, no empty per-event list and no empty hooks object.
UninstallClean ==
    (pc = "cli" /\ LogEndsWith(<<"uninstall">>) /\ cli.file.kind = "json")
    => /\ \A event_name \in DOMAIN EventHooks(cli.file) :
              /\ ~mentions_promptconduit(EventHooks(cli.file)[event_name])
              /\ The(EventHooks(cli.file)[event_name]).list # <<>>
       /\ "hooks" \in DOMAIN cli.file.settings => DOMAIN EventHooks(cli.file) # {}

\* C30: after any sequence of install and uninstall commands for one tool on a
\* settings file, each PromptConduit hook entry stands at most once per event
\* name and installing twice is installing once, every hook entry that is not
\* PromptConduit's is unchanged, and directly after an uninstall no
\* PromptConduit hook entry, no empty per-event list and no empty hooks object
\* is left.
C30_InstallUninstall == InstalledOnce /\ ForeignUntouched /\ UninstallClean

====
